---- MODULE Spec2Model ----
(***************************************************************************)
(* Model of the GenAI Adoption Pulse insight pipeline:                     *)
(*   backend/services/insights_engine.py  (InsightCache, InsightsEngine)   *)
(*   backend/services/data_processor.py   (DataProcessor._apply_filters)   *)
(*   backend/models/csv_models.py         (GrowthPredictionRecord)         *)
(*                                                                         *)
(* Numbers.  Rates and usage fractions are integers counting tenths        *)
(* (RateScale), composite usage scores count hundredths, confidences,      *)
(* coefficients and p-values count thousandths (Milli).  Means and ratios  *)
(* are exact rationals [num, den]; Python's binary floating point is not   *)
(* modelled.  Time is an integer number of minutes.  hashlib.md5 is        *)
(* modelled as injective: a key is the serialised filter itself.           *)
(***************************************************************************)
EXTENDS Integers, Sequences, FiniteSets, TLC

\* ------------------------------------------------------------------ bounds

\* Minutes the clock advances in one Tick.
TickMinutes == 5
\* The clock stops advancing once it has reached MaxTime minutes.
MaxTime == 10
\* Longest record list drawn as an input of the pure-function specifications.
MaxRecs == 3
\* Longest sample drawn as an input of the correlation functions.
MaxSample == 3

\* --------------------------------------------------------------- constants

\* InsightsEngine.__init__: InsightCache(ttl_minutes=10)
TTL_MINUTES == 10
\* units per 1.0 of a rate or usage fraction
RateScale == 10
\* units per 1.0 of a confidence, coefficient or p-value
Milli == 1000

\* current_year of validate_year_parameter
current_year == 2023

\* ----------------------------------------------------------------- helpers

Min(a, b) == IF a <= b THEN a ELSE b

Abs(a) == IF a < 0 THEN -a ELSE a

RECURSIVE GCD(_, _)
GCD(a, b) == IF b = 0 THEN a ELSE GCD(b, a % b)

RECURSIVE SumSeq(_)
SumSeq(s) == IF s = <<>> THEN 0 ELSE Head(s) + SumSeq(Tail(s))

\* a/b < c/d for a, c >= 0 and b, d > 0, by comparing continued fractions:
\* no product is formed, so no intermediate value exceeds the operands.
RECURSIVE FracLess(_, _, _, _)
FracLess(a, b, c, d) ==
    LET qa == a \div b
        qc == c \div d
        ra == a % b
        rc == c % d
    IN  IF qa # qc THEN qa < qc
        ELSE IF rc = 0 THEN FALSE
        ELSE IF ra = 0 THEN TRUE
        ELSE FracLess(d, rc, b, ra)

\* Exact rationals [num, den] with den > 0, kept in lowest terms.
Rat(n, d) ==
    LET g == GCD(Abs(n), d)
    IN  IF g = 0 THEN [num |-> 0, den |-> 1] ELSE [num |-> n \div g, den |-> d \div g]

RatAdd(p, q) == Rat(p.num * q.den + q.num * p.den, p.den * q.den)

RatLess(p, q) ==
    IF p.num < 0 /\ q.num >= 0 THEN TRUE
    ELSE IF p.num >= 0 /\ q.num < 0 THEN FALSE
    ELSE IF p.num >= 0 THEN FracLess(p.num, p.den, q.num, q.den)
    ELSE FracLess(-q.num, q.den, -p.num, p.den)

RECURSIVE RatSum(_)
RatSum(s) == IF s = <<>> THEN Rat(0, 1) ELSE RatAdd(Head(s), RatSum(Tail(s)))

\* statistics.mean of a non-empty list of rationals
RatMean(s) == LET t == RatSum(s) IN Rat(t.num, t.den * Len(s))

\* statistics.mean of a non-empty list of integers
IntMean(s) == Rat(SumSeq(s), Len(s))

\* ------------------------------------------------------------- Optional[T]

\* Optional[List[..]] arguments: None, or a list (possibly empty).
None == [none |-> TRUE, list |-> <<>>]

Some(l) == [none |-> FALSE, list |-> l]

\* A truthiness test that finds every argument falsy
Truthy_never(o) == FALSE

\* Python truthiness of an Optional[List]: None and [] are both falsy.
Truthy(o) == ~o.none /\ Len(o.list) > 0

InList(x, l) == \E i \in 1..Len(l) : l[i] = x

\* -------------------------------------------------------------- filtering

\* InsightsEngine._apply_filters: the loop, one record per step.
RECURSIVE apply_filters_from(_, _, _, _)
apply_filters_from(records, years, industries, i) ==
    IF i > Len(records) THEN <<>>
    ELSE LET record == records[i]
             rest == apply_filters_from(records, years, industries, i + 1)
         IN  IF Truthy(years) /\ ~InList(record.year, years.list) THEN rest
             ELSE IF Truthy(industries) /\ ~InList(record.industry, industries.list) THEN rest
             ELSE <<record>> \o rest

\* A plausible slip: the industry test is dropped.
apply_filters_no_industry(records, years, industries) ==
    apply_filters_from(records, years, None, 1)

apply_filters(records, years, industries) ==
    apply_filters_from(records, years, industries, 1)

\* ------------------------------------------------- dict and list idioms

\* The distinct elements of s in order of first appearance: the key order of
\* a dict (or defaultdict) filled by a loop over s.
RECURSIVE Distinct(_)
Distinct(s) ==
    IF s = <<>> THEN <<>>
    ELSE LET front == Distinct(SubSeq(s, 1, Len(s) - 1))
             x == s[Len(s)]
         IN  IF InList(x, front) THEN front ELSE Append(front, x)

\* sorted(S) for a finite set of integers
RECURSIVE Sorted(_)
Sorted(S) ==
    IF S = {} THEN <<>>
    ELSE LET m == CHOOSE x \in S : \A y \in S : x <= y
         IN  <<m>> \o Sorted(S \ {m})

MapIndustry(records) == [i \in 1..Len(records) |-> records[i].industry]

\* max(d, key=d.get) over a dict whose values, in key order, are vals: the
\* first key whose value no other exceeds.
FirstMaxIdx(vals) ==
    CHOOSE i \in 1..Len(vals) :
        /\ \A j \in 1..Len(vals) : ~RatLess(vals[i], vals[j])
        /\ \A j \in 1..(i - 1) : RatLess(vals[j], vals[i])

\* min(d, key=d.get) that answers with the last key of the dict
FirstMinIdx_last_key(vals) == Len(vals)

\* min(d, key=d.get): the first key whose value is not above any other.
FirstMinIdx(vals) ==
    CHOOSE i \in 1..Len(vals) :
        /\ \A j \in 1..Len(vals) : ~RatLess(vals[j], vals[i])
        /\ \A j \in 1..(i - 1) : RatLess(vals[i], vals[j])

\* ------------------------------------------------------------ statistics

\* n * sum((x - mean_x) * (y - mean_y)), an integer
PearsonNum(x, y) ==
    Len(x) * SumSeq([i \in 1..Len(x) |-> x[i] * y[i]]) - SumSeq(x) * SumSeq(y)

\* n * sum((x - mean_x) ** 2), an integer
PearsonSq(x) ==
    Len(x) * SumSeq([i \in 1..Len(x) |-> x[i] * x[i]]) - SumSeq(x) * SumSeq(x)

\* abs(correlation) >= a / b, where correlation ** 2 = n2 / d
AbsCorrAtLeast(n2, d, a, b) == ~FracLess(n2, d, a * a, b * b)

\* round(abs(correlation), 3) in thousandths: the largest R in lo..hi with
\* (2R - 1) / 2000 <= abs(correlation) (halves round up).
RECURSIVE RoundSearch(_, _, _, _)
RoundSearch(n2, d, lo, hi) ==
    IF lo >= hi THEN lo
    ELSE LET mid == (lo + hi + 1) \div 2
         IN  IF AbsCorrAtLeast(n2, d, 2 * mid - 1, 2 * Milli)
             THEN RoundSearch(n2, d, mid, hi)
             ELSE RoundSearch(n2, d, lo, mid - 1)

\* t_stat > c / 1000 where t_stat ** 2 = n2 * (n - 2) / (d - n2)
TStatAbove(n2, d, n, c) == FracLess(c * c, Milli * Milli, n2 * (n - 2), d - n2)

\* The p-value chosen in InsightsEngine._calculate_pearson_correlation,
\* thousandths, from the unrounded coefficient.
approx_p(n2, d, n) ==
    IF AbsCorrAtLeast(n2, d, 999, Milli) THEN 1
    ELSE IF TStatAbove(n2, d, n, 2576) THEN 10
    ELSE IF TStatAbove(n2, d, n, 1960) THEN 50
    ELSE IF TStatAbove(n2, d, n, 1645) THEN 100
    ELSE 200

\* _calculate_pearson_correlation dividing by the sum of squares of x alone
\* (the regression slope) instead of the root of the product
calculate_pearson_slope(x_values, y_values) ==
    IF Len(x_values) # Len(y_values) \/ Len(x_values) < 2 THEN <<0, Milli, 0>>
    ELSE LET n == Len(x_values)
             num == PearsonNum(x_values, y_values)
             sx == PearsonSq(x_values)
         IN  IF sx * PearsonSq(y_values) = 0 THEN <<0, Milli, n>>
             ELSE LET r == (2 * Abs(num) * Milli + sx) \div (2 * sx)
                  IN  <<IF num < 0 THEN -r ELSE r, 200, n>>

\* InsightsEngine._calculate_pearson_correlation: <<round(correlation, 3),
\* p_value, n>>, coefficient and p-value in thousandths.
calculate_pearson_correlation(x_values, y_values) ==
    IF Len(x_values) # Len(y_values) \/ Len(x_values) < 2 THEN <<0, Milli, 0>>
    ELSE LET n == Len(x_values)
             num == PearsonNum(x_values, y_values)
             d == PearsonSq(x_values) * PearsonSq(y_values)
         IN  IF d = 0 THEN <<0, Milli, n>>
             ELSE LET r == RoundSearch(num * num, d, 0, Milli)
                  IN  <<IF num < 0 THEN -r ELSE r, approx_p(num * num, d, n), n>>

\* _calculate_confidence without the 0.95 cap
calculate_confidence_uncapped(p_value, n, cohens_d) ==
    LET raw == (Milli - p_value) * n * (2 * Milli + Abs(cohens_d))
        unit == 200 * Milli
    IN  (raw + unit \div 2) \div unit

\* InsightsEngine._calculate_confidence, thousandths in and out:
\* round(min(0.95, (1 - p) * (n / 100) * (1 + abs(d) / 2)), 3)
calculate_confidence(p_value, n, cohens_d) ==
    LET raw == (Milli - p_value) * n * (2 * Milli + Abs(cohens_d))
        unit == 200 * Milli
    IN  IF raw >= 950 * unit THEN 950 ELSE (raw + unit \div 2) \div unit

\* ------------------------------------------------------------- generators

\* InsightObject.  id is the category prefix with the timestamp it is
\* formatted from; subject is the industry of data_slice_url ("" when the
\* URL names none); t is datetime.utcnow() of the call.
InsightObject(prefix, category, subject, confidence, t, stats) ==
    [id |-> <<prefix, t>>, category |-> category, subject |-> subject,
     confidence |-> confidence, computed_at |-> t, statistical_data |-> stats]

AdoptionRates(records, industry) ==
    LET rs == SelectSeq(records, LAMBDA r : r.industry = industry)
    IN  [i \in 1..Len(rs) |-> rs[i].adoption_rate]

\* confidence = min(0.95, sample_size / 10), without the cap
adoption_confidence_uncapped(sample_size) == (sample_size * Milli) \div 10

\* confidence = min(0.95, sample_size / 10)
adoption_confidence(sample_size) == Min(950, (sample_size * Milli) \div 10)

\* rate > 0.6 written as rate >= 0.6
is_high_adoption_inclusive(rate) == ~RatLess(rate, Rat(6 * RateScale, 10))

\* rate > 0.6
is_high_adoption(rate) == RatLess(Rat(6 * RateScale, 10), rate)

\* InsightsEngine._generate_adoption_insights
generate_adoption_insights(records, t) ==
    IF records = <<>> THEN <<>>
    ELSE LET industries == Distinct(MapIndustry(records))
             industry_averages ==
                 [i \in 1..Len(industries) |-> IntMean(AdoptionRates(records, industries[i]))]
             high_adoption_industries ==
                 {i \in 1..Len(industries) : is_high_adoption(industry_averages[i])}
         IN  IF high_adoption_industries = {} THEN <<>>
             ELSE LET top == FirstMaxIdx(industry_averages)
                      top_industry == industries[top]
                      sample_size == Len(AdoptionRates(records, top_industry))
                  IN  <<InsightObject("adoption_leader", "adoption_trends", top_industry,
                            adoption_confidence(sample_size), t,
                            [adoption_rate |-> industry_averages[top],
                             sample_size |-> sample_size,
                             industry_count |-> Len(industries)])>>

\* key = (record.industry.value, record.year) without the industry
KeyOf_year_only(record) == <<record.year>>

KeyOf(record) == <<record.industry, record.year>>

\* One key per record, repeated keys kept
LookupKeys_records(records) == [i \in 1..Len(records) |-> KeyOf(records[i])]

\* The keys of the lookup dict built by a loop over records, in dict order.
LookupKeys(records) == Distinct([i \in 1..Len(records) |-> KeyOf(records[i])])

\* lookup[key] that keeps the first record of a key
Lookup_first(records, key) ==
    records[CHOOSE i \in 1..Len(records) :
                /\ KeyOf(records[i]) = key
                /\ \A j \in 1..(i - 1) : KeyOf(records[j]) # key]

\* lookup[key]: a later record with the same key overwrites an earlier one.
Lookup(records, key) ==
    LET last == CHOOSE i \in 1..Len(records) :
                    /\ KeyOf(records[i]) = key
                    /\ \A j \in (i + 1)..Len(records) : KeyOf(records[j]) # key
    IN  records[last]

\* aws_score of _generate_correlation_insights, not rounded: in hundredths of
\* fractions given in tenths, in general in a tenth of the fractions' unit
aws_score(aws_record) ==
    aws_record.bedrock_usage * 3 + aws_record.sagemaker_usage * 3 +
    aws_record.lambda_usage * 2 + aws_record.s3_usage * 1 + aws_record.ec2_usage * 1

\* InsightsEngine._generate_correlation_insights
generate_correlation_insights(genai_records, aws_records, t) ==
    IF genai_records = <<>> \/ aws_records = <<>> THEN <<>>
    ELSE LET aws_keys == LookupKeys(aws_records)
             matched == SelectSeq(LookupKeys(genai_records), LAMBDA k : InList(k, aws_keys))
             genai_values ==
                 [i \in 1..Len(matched) |-> Lookup(genai_records, matched[i]).adoption_rate]
             aws_values ==
                 [i \in 1..Len(matched) |-> aws_score(Lookup(aws_records, matched[i]))]
         IN  IF Len(genai_values) < 3 THEN <<>>
             ELSE LET res == calculate_pearson_correlation(genai_values, aws_values)
                      correlation == res[1]
                      p_value == res[2]
                      n == res[3]
                      cohens_d == Abs(correlation)
                      confidence == calculate_confidence(p_value, n, cohens_d)
                  IN  IF Abs(correlation) > 300
                      THEN <<InsightObject("correlation", "correlation_analysis", "",
                                 confidence, t,
                                 [correlation_coefficient |-> correlation,
                                  p_value |-> p_value,
                                  sample_size |-> n,
                                  cohens_d |-> cohens_d,
                                  strength |-> IF Abs(correlation) > 700 THEN "strong" ELSE "moderate",
                                  direction |-> IF correlation > 0 THEN "positive" ELSE "negative"])>>
                      ELSE <<>>

\* industry_year_data[industry]: the years with data, sorted
YearsSorted(records, industry) ==
    Sorted({records[i].year : i \in {j \in 1..Len(records) : records[j].industry = industry}})

\* statistics.mean(industry_year_data[industry][year])
YearAverage(records, industry, year) ==
    LET rs == SelectSeq(records, LAMBDA r : r.industry = industry /\ r.year = year)
    IN  IntMean([i \in 1..Len(rs) |-> rs[i].adoption_rate])

\* growth_rates of one industry: a step whose base-year mean is 0 is skipped
RECURSIVE GrowthRates(_, _, _, _)
GrowthRates(records, industry, years_sorted, i) ==
    IF i > Len(years_sorted) THEN <<>>
    ELSE LET prev_avg == YearAverage(records, industry, years_sorted[i - 1])
             curr_avg == YearAverage(records, industry, years_sorted[i])
             rest == GrowthRates(records, industry, years_sorted, i + 1)
         IN  IF prev_avg.num > 0
             THEN <<Rat((curr_avg.num * prev_avg.den - prev_avg.num * curr_avg.den) * prev_avg.den,
                        curr_avg.den * prev_avg.den * prev_avg.num)>> \o rest
             ELSE rest

\* confidence = min(0.9, sample_size / 5), without the cap
growth_confidence_uncapped(sample_size) == (sample_size * Milli) \div 5

\* confidence = min(0.9, sample_size / 5)
growth_confidence(sample_size) == Min(900, (sample_size * Milli) \div 5)

\* InsightsEngine._generate_growth_insights
generate_growth_insights(all_records, years, industries, t) ==
    IF all_records = <<>> THEN <<>>
    ELSE LET kept == SelectSeq(all_records, LAMBDA r :
                         /\ ~(Truthy(industries) /\ ~InList(r.industry, industries.list))
                         /\ ~(Truthy(years) /\ ~InList(r.year, years.list)))
             all_industries == Distinct(MapIndustry(kept))
             rates(ind) == GrowthRates(kept, ind, YearsSorted(kept, ind), 2)
             growing == SelectSeq(all_industries, LAMBDA ind : rates(ind) # <<>>)
             industry_growth_rates == [i \in 1..Len(growing) |-> RatMean(rates(growing[i]))]
         IN  IF growing = <<>> THEN <<>>
             ELSE LET fastest == FirstMaxIdx(industry_growth_rates)
                      fastest_industry == growing[fastest]
                      fastest_rate == industry_growth_rates[fastest]
                      sample_size == Len(YearsSorted(kept, fastest_industry))
                  IN  IF RatLess(Rat(1, 10), fastest_rate)
                      THEN <<InsightObject("growth_leader", "growth_trends", fastest_industry,
                                 growth_confidence(sample_size), t,
                                 [growth_rate |-> fastest_rate,
                                  sample_size |-> sample_size,
                                  years_analyzed |-> sample_size])>>
                      ELSE <<>>

\* The efficiencies of one industry: investment_millions / use_cases_count of
\* its records with use_cases_count > 0.
Efficiencies(records, industry) ==
    LET rs == SelectSeq(records, LAMBDA r : r.use_cases_count > 0 /\ r.industry = industry)
    IN  [i \in 1..Len(rs) |-> Rat(rs[i].investment_millions, rs[i].use_cases_count)]

\* confidence = min(0.85, sample_size / 8), without the cap
investment_confidence_uncapped(sample_size) == (sample_size * Milli) \div 8

\* confidence = min(0.85, sample_size / 8)
investment_confidence(sample_size) == Min(850, (sample_size * Milli) \div 8)

\* InsightsEngine._generate_investment_insights
generate_investment_insights(records, t) ==
    IF records = <<>> THEN <<>>
    ELSE LET counted == SelectSeq(records, LAMBDA r : r.use_cases_count > 0)
             industries == Distinct(MapIndustry(counted))
             industry_avg_efficiency ==
                 [i \in 1..Len(industries) |-> RatMean(Efficiencies(records, industries[i]))]
         IN  IF counted = <<>> THEN <<>>
             ELSE LET best == FirstMinIdx(industry_avg_efficiency)
                      most_efficient == industries[best]
                      sample_size == Len(Efficiencies(records, most_efficient))
                  IN  <<InsightObject("investment_efficiency", "investment_analysis",
                            most_efficient, investment_confidence(sample_size), t,
                            [efficiency_ratio |-> industry_avg_efficiency[best],
                             sample_size |-> sample_size,
                             total_industries |-> Len(industries)])>>

\* ------------------------------------------------------------ the data

GenAI(industry, year, adoption_rate, use_cases_count, investment_millions) ==
    [industry |-> industry, year |-> year, adoption_rate |-> adoption_rate,
     use_cases_count |-> use_cases_count, investment_millions |-> investment_millions]

\* A usage record whose five fractions are b, s, l, s3, e.
AWS(industry, year, b, s, l, s3, e) ==
    [industry |-> industry, year |-> year, bedrock_usage |-> b, sagemaker_usage |-> s,
     lambda_usage |-> l, s3_usage |-> s3, ec2_usage |-> e]

\* The CSV files the loader may find on disk.  1: three industries, one of
\* them with two rows a year over five years; 2: valid rows in which no
\* generator finds a pattern.
Datasets ==
    << [genai |-> << GenAI("Healthcare", 2022, 5, 10, 50), GenAI("Healthcare", 2023, 8, 15, 80),
                     GenAI("Finance", 2022, 4, 5, 10), GenAI("Finance", 2023, 4, 2, 2),
                     GenAI("Technology", 2020, 3, 4, 8), GenAI("Technology", 2020, 3, 4, 8),
                     GenAI("Technology", 2021, 5, 4, 8), GenAI("Technology", 2021, 5, 4, 8),
                     GenAI("Technology", 2022, 7, 5, 10), GenAI("Technology", 2022, 7, 5, 10),
                     GenAI("Technology", 2023, 9, 5, 10), GenAI("Technology", 2023, 9, 5, 10),
                     GenAI("Technology", 2024, 10, 6, 12), GenAI("Technology", 2024, 10, 6, 12) >>,
        aws   |-> << AWS("Healthcare", 2022, 4, 4, 4, 4, 4), AWS("Healthcare", 2023, 8, 8, 8, 8, 8),
                     AWS("Finance", 2022, 3, 3, 3, 3, 3), AWS("Finance", 2023, 5, 2, 4, 9, 1),
                     AWS("Technology", 2020, 2, 3, 2, 5, 5), AWS("Technology", 2021, 4, 4, 5, 5, 5),
                     AWS("Technology", 2022, 6, 5, 5, 6, 5), AWS("Technology", 2023, 7, 8, 6, 6, 6),
                     AWS("Technology", 2024, 9, 9, 8, 7, 6) >>],
       [genai |-> << GenAI("Retail", 2022, 3, 0, 5), GenAI("Retail", 2023, 3, 0, 5) >>,
        aws   |-> << AWS("Retail", 2022, 2, 2, 2, 2, 2) >>] >>

\* filters = {"years": years, "industries": industries}
Filters ==
    { [years |-> None, industries |-> None],
      [years |-> Some(<<>>), industries |-> None],
      [years |-> Some(<<2022, 2023>>), industries |-> Some(<<"Healthcare">>)],
      [years |-> Some(<<2023, 2022>>), industries |-> Some(<<"Healthcare">>)],
      [years |-> Some(<<2030>>), industries |-> None] }

\* The instants the clock can show.
Times == {t \in 0..(MaxTime + TickMinutes) : t % TickMinutes = 0}

\* ------------------------------------------------------------ the cache

\* InsightCache._generate_key that leaves the years out
generate_key_industries_only(filters) == <<filters.industries>>

\* InsightCache._generate_key that writes None like an empty list
generate_key_lists(filters) == <<filters.industries.list, filters.years.list>>

\* InsightCache._generate_key: json.dumps(filters, sort_keys=True) writes the
\* dict keys in sorted order ("industries" before "years") and each list in
\* the order given; None is written as null, an empty list as [].
generate_key(filters) == <<filters.industries, filters.years>>

\* InsightCache.get with the age test written <= instead of <.
cache_get_inclusive(c, filters, t) ==
    LET key == generate_key(filters)
    IN  IF key \in DOMAIN c
        THEN IF t - c[key].timestamp <= TTL_MINUTES
             THEN [hit |-> TRUE, insights |-> c[key].insights, cache |-> c]
             ELSE [hit |-> FALSE, insights |-> <<>>,
                   cache |-> [k \in DOMAIN c \ {key} |-> c[k]]]
        ELSE [hit |-> FALSE, insights |-> <<>>, cache |-> c]

\* InsightCache.get that empties the dict when it finds its entry stale
cache_get_evict_all(c, filters, t) ==
    LET key == generate_key(filters)
    IN  IF key \in DOMAIN c
        THEN IF t - c[key].timestamp < TTL_MINUTES
             THEN [hit |-> TRUE, insights |-> c[key].insights, cache |-> c]
             ELSE [hit |-> FALSE, insights |-> <<>>, cache |-> [k \in {} |-> 0]]
        ELSE [hit |-> FALSE, insights |-> <<>>, cache |-> c]

\* InsightCache.get at time t: hit is FALSE where the method returns None;
\* cache is the dict the call leaves behind.
cache_get(c, filters, t) ==
    LET key == generate_key(filters)
    IN  IF key \in DOMAIN c
        THEN IF t - c[key].timestamp < TTL_MINUTES
             THEN [hit |-> TRUE, insights |-> c[key].insights, cache |-> c]
             ELSE [hit |-> FALSE, insights |-> <<>>,
                   cache |-> [k \in DOMAIN c \ {key} |-> c[k]]]
        ELSE [hit |-> FALSE, insights |-> <<>>, cache |-> c]

\* InsightCache.set that stores nothing
cache_set_skipped(c, filters, insights, t) == c

\* InsightCache.set at time t
cache_set(c, filters, insights, t) ==
    LET key == generate_key(filters)
    IN  [k \in DOMAIN c \cup {key} |->
            IF k = key THEN [insights |-> insights, timestamp |-> t] ELSE c[k]]

\* ------------------------------------------------------------ the engine

\* generate_insights, lines 108-116, with growth before investment swapped.
run_generators_swapped(genai_records, aws_records, years, industries, t) ==
    LET filtered_genai == apply_filters(genai_records, years, industries)
        filtered_aws == apply_filters(aws_records, years, industries)
    IN  generate_adoption_insights(filtered_genai, t)
        \o generate_correlation_insights(filtered_genai, filtered_aws, t)
        \o generate_investment_insights(filtered_genai, t)
        \o generate_growth_insights(genai_records, years, industries, t)

\* generate_insights, lines 108-116: filter, then the four generators in order.
run_generators(genai_records, aws_records, years, industries, t) ==
    LET filtered_genai == apply_filters(genai_records, years, industries)
        filtered_aws == apply_filters(aws_records, years, industries)
    IN  generate_adoption_insights(filtered_genai, t)
        \o generate_correlation_insights(filtered_genai, filtered_aws, t)
        \o generate_growth_insights(genai_records, years, industries, t)
        \o generate_investment_insights(filtered_genai, t)

\* What lines 105-116 of generate_insights compute from the files of dataset
\* d, for every filter and instant of the model.
PipelineOf(d) ==
    [f \in Filters |-> [t \in Times |->
        run_generators(Datasets[d].genai, Datasets[d].aws, f.years, f.industries, t)]]

\* The outcomes of the two loader calls of one generate_insights call: both
\* succeed, load_genai_adoption_data raises, or load_aws_usage_data raises.
Faults == {"none", "genai", "aws"}

\* generate_insights that answers a loader failure with an empty list, and
\* caches it.
generate_insights_swallow(c, computed, years, industries, t, fault) ==
    LET filters == [years |-> years, industries |-> industries]
        got == cache_get(c, filters, t)
    IN  IF got.hit /\ got.insights # <<>>
        THEN [outcome |-> "cached", result |-> got.insights, cache |-> got.cache,
              loads |-> 0, generated |-> FALSE]
        ELSE LET insights == IF fault = "none" THEN computed[filters][t] ELSE <<>>
             IN  [outcome |-> "computed", result |-> insights,
                  cache |-> cache_set(got.cache, filters, insights, t),
                  loads |-> 2, generated |-> TRUE]

\* InsightsEngine.generate_insights as one call at time t on cache c, where
\* computed[filters][t] is what the generators make of the files on disk.
\* outcome: "cached" (line 100), "error" (a loader raised CSVLoadingError,
\* which nothing here catches) or "computed" (line 122).
\* `if cached_insights:` is Python truthiness: a cached empty list is falsy.
generate_insights(c, computed, years, industries, t, fault) ==
    LET filters == [years |-> years, industries |-> industries]
        got == cache_get(c, filters, t)
    IN  IF got.hit /\ got.insights # <<>>
        THEN [outcome |-> "cached", result |-> got.insights, cache |-> got.cache,
              loads |-> 0, generated |-> FALSE]
        ELSE IF fault = "genai"
        THEN [outcome |-> "error", result |-> <<>>, cache |-> got.cache,
              loads |-> 1, generated |-> FALSE]
        ELSE IF fault = "aws"
        THEN [outcome |-> "error", result |-> <<>>, cache |-> got.cache,
              loads |-> 2, generated |-> FALSE]
        ELSE LET insights == computed[filters][t]
             IN  [outcome |-> "computed", result |-> insights,
                  cache |-> cache_set(got.cache, filters, insights, t),
                  loads |-> 2, generated |-> TRUE]

\* ------------------------------------------------- the data processor

\* Optional[int] and Optional[str] arguments: None, or a value.
NoneInt == [none |-> TRUE, value |-> 0]

NoneStr == [none |-> TRUE, value |-> ""]

SomeValue(v) == [none |-> FALSE, value |-> v]

\* Python truthiness of an Optional[int]: None and 0 are both falsy.
TruthyInt(o) == ~o.none /\ o.value # 0

\* Python truthiness of an Optional[str]: None and "" are both falsy.
TruthyStr(o) == ~o.none /\ o.value # ""

\* DataProcessor._apply_filters: the loop, one record per step.
RECURSIVE processor_apply_filters_from(_, _, _, _)
processor_apply_filters_from(records, year_filter, industry_filter, i) ==
    IF i > Len(records) THEN <<>>
    ELSE LET record == records[i]
             rest == processor_apply_filters_from(records, year_filter, industry_filter, i + 1)
         IN  IF TruthyInt(year_filter) /\ record.year # year_filter.value THEN rest
             ELSE IF TruthyStr(industry_filter) /\ record.industry # industry_filter.value
             THEN rest
             ELSE <<record>> \o rest

processor_apply_filters(records, year_filter, industry_filter) ==
    processor_apply_filters_from(records, year_filter, industry_filter, 1)

\* The dict that transform_genai_adoption_to_json builds from one record.
json_record(record) ==
    [industry |-> record.industry, year |-> record.year,
     adoption_rate |-> record.adoption_rate,
     use_cases_count |-> record.use_cases_count,
     investment_millions |-> record.investment_millions]

\* DataProcessor.transform_genai_adoption_to_json
transform_genai_adoption_to_json(records, year_filter, industry_filter) ==
    LET filtered_records == processor_apply_filters(records, year_filter, industry_filter)
    IN  [i \in 1..Len(filtered_records) |-> json_record(filtered_records[i])]

\* round(x, 3), in thousandths, of x = num / den >= 0; an exact tie goes to
\* the even neighbour
round3(num, den) ==
    LET q == (num * Milli) \div den
        rem == (num * Milli) % den
    IN  IF 2 * rem > den \/ (2 * rem = den /\ q % 2 = 1) THEN q + 1 ELSE q

\* DataProcessor._calculate_aws_usage_score: round(score, 3), in thousandths,
\* of fractions given in units of 1 / scale
calculate_aws_usage_score_at(record, scale) ==
    round3(record.bedrock_usage * 3 + record.sagemaker_usage * 3 + record.lambda_usage * 2
               + record.s3_usage * 1 + record.ec2_usage * 1,
           10 * scale)

\* DataProcessor._calculate_aws_usage_score of fractions given in tenths
calculate_aws_usage_score(record) == calculate_aws_usage_score_at(record, RateScale)

\* DataProcessor._calculate_pearson_correlation answering a zero denominator
\* with 1.0
processor_pearson_degenerate_one(x_values, y_values) ==
    IF Len(x_values) # Len(y_values) \/ Len(x_values) < 2 THEN 0
    ELSE LET num == PearsonNum(x_values, y_values)
             d == PearsonSq(x_values) * PearsonSq(y_values)
         IN  IF d = 0 THEN Milli
             ELSE LET r == RoundSearch(num * num, d, 0, Milli)
                  IN  IF num < 0 THEN -r ELSE r

\* DataProcessor._calculate_pearson_correlation: round(correlation, 3) in
\* thousandths
processor_calculate_pearson_correlation(x_values, y_values) ==
    IF Len(x_values) # Len(y_values) \/ Len(x_values) < 2 THEN 0
    ELSE LET num == PearsonNum(x_values, y_values)
             d == PearsonSq(x_values) * PearsonSq(y_values)
         IN  IF d = 0 THEN 0
             ELSE LET r == RoundSearch(num * num, d, 0, Milli)
                  IN  IF num < 0 THEN -r ELSE r

\* DataProcessor._calculate_statistical_significance: the p-value, in
\* thousandths, of a coefficient given in thousandths
calculate_statistical_significance(correlation, sample_size) ==
    IF sample_size < 3 THEN Milli
    ELSE IF Abs(correlation) >= 999 THEN 1
    ELSE LET r2 == correlation * correlation
             one == Milli * Milli
         IN  IF TStatAbove(r2, one, sample_size, 2576) THEN 10
             ELSE IF TStatAbove(r2, one, sample_size, 1960) THEN 50
             ELSE IF TStatAbove(r2, one, sample_size, 1645) THEN 100
             ELSE 200

\* DataProcessor.calculate_correlation_analysis: the coefficient, the
\* significance and the sample size of the CorrelationData it returns.
calculate_correlation_analysis(genai_records, aws_records, year_filter) ==
    LET keep(r) == ~(TruthyInt(year_filter) /\ r.year # year_filter.value)
        genai == SelectSeq(genai_records, keep)
        aws == SelectSeq(aws_records, keep)
        aws_keys == LookupKeys(aws)
        matched == SelectSeq(LookupKeys(genai), LAMBDA k : InList(k, aws_keys))
        genai_values == [i \in 1..Len(matched) |-> Lookup(genai, matched[i]).adoption_rate]
        aws_values ==
            [i \in 1..Len(matched) |-> calculate_aws_usage_score(Lookup(aws, matched[i]))]
        data_points ==
            [i \in 1..Len(matched) |->
                [industry |-> Lookup(genai, matched[i]).industry,
                 year |-> Lookup(genai, matched[i]).year,
                 genai_adoption |-> genai_values[i],
                 aws_usage_score |-> aws_values[i]]]
    IN  IF Len(genai_values) < 2
        THEN [correlation_coefficient |-> 0, statistical_significance |-> 0,
              data_points |-> data_points, sample_size |-> Len(data_points)]
        ELSE LET correlation_coefficient ==
                     processor_calculate_pearson_correlation(genai_values, aws_values)
             IN  [correlation_coefficient |-> correlation_coefficient,
                  statistical_significance |->
                      calculate_statistical_significance(
                          correlation_coefficient, Len(genai_values)),
                  data_points |-> data_points, sample_size |-> Len(data_points)]

\* ------------------------------------------------ GrowthPredictionRecord

\* IndustryEnum
IndustryEnum ==
    {"Healthcare", "Finance", "Manufacturing", "Technology", "Retail", "Education",
     "Energy", "Transportation"}

\* The fields of GrowthPredictionRecord in the order the class declares them,
\* which is the order in which they are validated.
GrowthFields ==
    <<"industry", "year", "predicted_adoption", "confidence_interval_low",
      "confidence_interval_high">>

\* Field(..., ge=0.0, le=1.0) and validate_prediction_rates, on tenths
rate_in_range(v) == 0 <= v /\ v <= RateScale

\* validate_confidence_interval_order(v, values): values holds the fields
\* validated, without error, before confidence_interval_high.
validate_confidence_interval_order(v, values, raw) ==
    ~("confidence_interval_low" \in values /\ v < raw.confidence_interval_low)

\* validate_prediction_within_confidence(v, values): values holds the fields
\* validated, without error, before predicted_adoption.
validate_prediction_within_confidence(v, values, raw) ==
    ("confidence_interval_low" \in values /\ "confidence_interval_high" \in values)
        => (raw.confidence_interval_low <= v /\ v <= raw.confidence_interval_high)

\* Whether one field of the raw row passes its constraints and validators,
\* given the names of the fields that passed before it.
field_ok(name, values, raw) ==
    IF name = "industry" THEN raw.industry \in IndustryEnum
    ELSE IF name = "year" THEN 2024 <= raw.year /\ raw.year <= 2035
    ELSE IF name = "predicted_adoption"
    THEN /\ rate_in_range(raw.predicted_adoption)
         /\ validate_prediction_within_confidence(raw.predicted_adoption, values, raw)
    ELSE IF name = "confidence_interval_low"
    THEN rate_in_range(raw.confidence_interval_low)
    ELSE /\ rate_in_range(raw.confidence_interval_high)
         /\ validate_confidence_interval_order(raw.confidence_interval_high, values, raw)

\* The names of the first n fields that validated: the `values` dict that
\* the validators of field n + 1 are handed.
RECURSIVE validated_fields(_, _)
validated_fields(raw, n) ==
    IF n = 0 THEN {}
    ELSE LET before == validated_fields(raw, n - 1)
         IN  IF field_ok(GrowthFields[n], before, raw)
             THEN before \cup {GrowthFields[n]}
             ELSE before

\* GrowthPredictionRecord(**raw) that constructs from any row
growth_record_unchecked(raw) == TRUE

\* GrowthPredictionRecord(**raw): constructed iff every field validated.
growth_record_valid(raw) ==
    validated_fields(raw, Len(GrowthFields)) = {GrowthFields[i] : i \in 1..Len(GrowthFields)}

\* DataLoader._validate_records(df, GrowthPredictionRecord, filename): the
\* loop appends a record for a row the model class constructs from and an
\* error message for any other row.
validate_records(df) ==
    LET valid_records == SelectSeq(df, growth_record_valid)
        errors == SelectSeq(df, LAMBDA row : ~growth_record_valid(row))
    IN  [records |-> valid_records,
         is_valid |-> Len(errors) = 0,
         records_processed |-> Len(df),
         records_valid |-> Len(valid_records),
         records_invalid |-> Len(errors)]

\* ------------------------------------------------------------- the state

VARIABLES
    now,      \* datetime.utcnow(), minutes
    cache,    \* InsightCache.cache: key -> [insights, timestamp]
    ds,       \* which of Datasets the CSV files hold
    pipeline, \* PipelineOf(ds): the files never change, so this never does
    last,     \* the latest operation: its arguments, what it found and returned
    watch,    \* whether hist follows the calls made with one filter, and which
    hist,     \* the latest generate_insights call with that filter that returned
    probe,    \* the latest call of a pure function: its arguments and result
    calls     \* the generate_insights calls in progress on threads: their positions

vars == <<now, cache, ds, pipeline, last, watch, hist, probe, calls>>

EmptyCache == [k \in {} |-> 0]

NoFilters == [years |-> None, industries |-> None]

NoHist == [valid |-> FALSE, at |-> 0, stored |-> 0, result |-> <<>>, cleared |-> FALSE]

Idle == [fn |-> "idle"]

\* The threads of a host that runs generate_insights calls concurrently.
Threads == {1, 2}

\* A thread that is not inside generate_insights.  duplicate tells that the
\* call computes while another call for the same filters has missed and not
\* yet stored.
NoCall ==
    [pc |-> "idle", filters |-> NoFilters, insights |-> <<>>, timestamp |-> 0,
     duplicate |-> FALSE]

NoCalls == [t \in Threads |-> NoCall]

\* The record of an operation on filters f that starts on cache c at time t.
Observed(op, f, c, t, fault, after_get, outcome, result, loads, generated, earlier) ==
    LET key == generate_key(f)
        found == key \in DOMAIN c
    IN  [op |-> op, filters |-> f, at |-> t, fault |-> fault,
         found |-> found,
         stored |-> IF found THEN c[key].timestamp ELSE 0,
         held |-> IF found THEN c[key].insights ELSE <<>>,
         hit |-> cache_get(c, f, t).hit,
         after_get |-> after_get,
         cache_before |-> c,
         outcome |-> outcome, result |-> result,
         loads |-> loads, generated |-> generated,
         earlier |-> earlier]

Quiet(op, c, t) ==
    Observed(op, NoFilters, c, t, "none", c, "none", <<>>, 0, FALSE, NoHist)

Init ==
    /\ now = 0
    /\ cache = EmptyCache
    /\ ds \in 1..Len(Datasets)
    /\ pipeline = PipelineOf(ds)
    /\ watch = [on |-> FALSE, filters |-> NoFilters]
    /\ hist = NoHist
    /\ last = Quiet("init", EmptyCache, 0)
    /\ probe = Idle
    /\ calls = NoCalls

Watched(f) == watch.on /\ watch.filters = f

\* The clock advances.
Tick ==
    /\ now < MaxTime
    /\ now' = now + TickMinutes
    /\ last' = Quiet("tick", cache, now)
    /\ UNCHANGED <<cache, ds, pipeline, watch, hist, probe, calls>>

\* InsightsEngine.generate_insights(years, industries)
GenerateInsights(f, fault) ==
    LET call == generate_insights(cache, pipeline, f.years, f.industries, now, fault)
        key == generate_key(f)
    IN  /\ cache' = call.cache
        /\ last' = Observed("generate", f, cache, now, fault,
                            cache_get(cache, f, now).cache,
                            call.outcome, call.result, call.loads, call.generated,
                            IF Watched(f) THEN hist ELSE NoHist)
        /\ hist' = IF Watched(f) /\ call.outcome # "error"
                   THEN [valid |-> TRUE, at |-> now,
                         stored |-> IF key \in DOMAIN call.cache
                                    THEN call.cache[key].timestamp ELSE now,
                         result |-> call.result, cleared |-> FALSE]
                   ELSE hist
        /\ UNCHANGED <<now, ds, pipeline, watch, probe, calls>>

\* InsightCache.get(filters), called on the engine's cache directly
Get(f) ==
    LET got == cache_get(cache, f, now)
    IN  /\ cache' = got.cache
        /\ last' = Observed("get", f, cache, now, "none", got.cache, "none",
                            got.insights, 0, FALSE, NoHist)
        /\ UNCHANGED <<now, ds, pipeline, watch, hist, probe, calls>>

\* InsightCache.clear()
Clear ==
    /\ cache' = EmptyCache
    /\ last' = Quiet("clear", cache, now)
    /\ hist' = IF hist.valid THEN [hist EXCEPT !.cleared = TRUE] ELSE hist
    /\ UNCHANGED <<now, ds, pipeline, watch, probe, calls>>

Next ==
    \/ Tick
    \/ \E f \in Filters, fault \in Faults : GenerateInsights(f, fault)
    \/ \E f \in Filters : Get(f)
    \/ Clear

Spec == Init /\ [][Next]_vars

\* ---------------------------------------- two calls with the same filter

\* One filter is singled out and hist follows the generate_insights calls
\* made with it.  Calls with other filters read and write other keys only
\* (generate_key is injective on Filters), so they are left out here.
InitTwoCalls ==
    /\ now = 0
    /\ cache = EmptyCache
    /\ ds \in 1..Len(Datasets)
    /\ pipeline = PipelineOf(ds)
    /\ watch \in {[on |-> TRUE, filters |-> f] : f \in Filters}
    /\ hist = NoHist
    /\ last = Quiet("init", EmptyCache, 0)
    /\ probe = Idle
    /\ calls = NoCalls

NextTwoCalls ==
    \/ Tick
    \/ \E fault \in Faults : GenerateInsights(watch.filters, fault)
    \/ Get(watch.filters)
    \/ Clear

SpecTwoCalls == InitTwoCalls /\ [][NextTwoCalls]_vars

\* ------------------------------------------------------ pure functions

\* All sequences over S of length at most n
SeqsUpTo(S, n) == UNION {[1..k -> S] : k \in 0..n}

\* Inputs of the two filter functions
FilterRecords ==
    {GenAI(i, y, 5, 3, 10) : i \in {"Healthcare", "Finance"}, y \in {2022, 2023}}

YearArgs == {None, Some(<<>>), Some(<<2022>>), Some(<<2023, 2022>>), Some(<<2024>>)}

IndustryArgs ==
    {None, Some(<<>>), Some(<<"Healthcare">>), Some(<<"Finance", "Healthcare">>)}

YearFilterArgs == {NoneInt, SomeValue(0), SomeValue(2022), SomeValue(2024)}

IndustryFilterArgs == {NoneStr, SomeValue(""), SomeValue("Healthcare"), SomeValue("Energy")}

\* Raw rows offered to GrowthPredictionRecord; rates in tenths, so -1 and 11
\* lie outside [0, 1].
RateInputs == {-1, 0, 1, 5, 9, 10, 11}

GrowthRows ==
    [industry : {"Healthcare", "Mining"}, year : {2023, 2024, 2035, 2036},
     predicted_adoption : RateInputs, confidence_interval_low : RateInputs,
     confidence_interval_high : RateInputs]

\* Inputs of the adoption generator: short lists over two industries with
\* means below, at and above 0.6, alone or after ten rows of a third industry.
AdoptionRecords ==
    {GenAI(i, 2023, r, 3, 10) : i \in {"Healthcare", "Finance"}, r \in {5, 6, 7}}

TenRows == [i \in 1..10 |-> GenAI("Technology", 2022, 7, 3, 10)]

AdoptionInputs ==
    {base \o s : base \in {<<>>, TenRows}, s \in SeqsUpTo(AdoptionRecords, MaxRecs)}

InitPure ==
    /\ now = 0
    /\ cache = EmptyCache
    /\ ds = 1
    /\ pipeline = PipelineOf(ds)
    /\ watch = [on |-> FALSE, filters |-> NoFilters]
    /\ hist = NoHist
    /\ last = Quiet("init", EmptyCache, 0)
    /\ probe = Idle
    /\ calls = NoCalls

\* InsightsEngine._apply_filters(records, years, industries)
CallApplyFilters ==
    /\ probe = Idle
    /\ \E records \in SeqsUpTo(FilterRecords, MaxRecs),
          years \in YearArgs, industries \in IndustryArgs :
            probe' = [fn |-> "apply_filters", records |-> records, years |-> years,
                      industries |-> industries,
                      result |-> apply_filters(records, years, industries)]
    /\ UNCHANGED <<now, cache, ds, pipeline, last, watch, hist, calls>>

\* DataProcessor.transform_genai_adoption_to_json(records, year_filter,
\* industry_filter)
CallTransform ==
    /\ probe = Idle
    /\ \E records \in SeqsUpTo(FilterRecords, MaxRecs),
          year_filter \in YearFilterArgs, industry_filter \in IndustryFilterArgs :
            probe' = [fn |-> "transform", records |-> records,
                      year_filter |-> year_filter, industry_filter |-> industry_filter,
                      result |-> transform_genai_adoption_to_json(
                                     records, year_filter, industry_filter)]
    /\ UNCHANGED <<now, cache, ds, pipeline, last, watch, hist, calls>>

\* GrowthPredictionRecord(**raw)
CallGrowthPredictionRecord ==
    /\ probe = Idle
    /\ \E raw \in GrowthRows :
            probe' = [fn |-> "GrowthPredictionRecord", raw |-> raw,
                      constructed |-> growth_record_valid(raw)]
    /\ UNCHANGED <<now, cache, ds, pipeline, last, watch, hist, calls>>

\* InsightsEngine._generate_adoption_insights(records)
CallAdoptionInsights ==
    /\ probe = Idle
    /\ \E records \in AdoptionInputs :
            probe' = [fn |-> "adoption_insights", records |-> records,
                      result |-> generate_adoption_insights(records, now)]
    /\ UNCHANGED <<now, cache, ds, pipeline, last, watch, hist, calls>>

\* The call returns; the next one may start.
Return ==
    /\ probe # Idle
    /\ probe' = Idle
    /\ UNCHANGED <<now, cache, ds, pipeline, last, watch, hist, calls>>

\* The rows of a growth-prediction table: two that meet every constraint, one
\* with an unknown industry, one with a rate above 1, one whose interval is
\* upside down.
TableRows ==
    { [industry |-> "Healthcare", year |-> 2024, predicted_adoption |-> 5,
       confidence_interval_low |-> 1, confidence_interval_high |-> 9],
      [industry |-> "Healthcare", year |-> 2035, predicted_adoption |-> 5,
       confidence_interval_low |-> 5, confidence_interval_high |-> 5],
      [industry |-> "Mining", year |-> 2024, predicted_adoption |-> 5,
       confidence_interval_low |-> 1, confidence_interval_high |-> 9],
      [industry |-> "Healthcare", year |-> 2024, predicted_adoption |-> 11,
       confidence_interval_low |-> 1, confidence_interval_high |-> 9],
      [industry |-> "Healthcare", year |-> 2024, predicted_adoption |-> 5,
       confidence_interval_low |-> 9, confidence_interval_high |-> 1] }

\* DataLoader._validate_records(df, GrowthPredictionRecord, filename)
CallValidateRecords ==
    /\ probe = Idle
    /\ \E df \in SeqsUpTo(TableRows, MaxRecs) :
            probe' = [fn |-> "validate_records", df |-> df, result |-> validate_records(df)]
    /\ UNCHANGED <<now, cache, ds, pipeline, last, watch, hist, calls>>

NextPure ==
    \/ CallValidateRecords
    \/ CallApplyFilters
    \/ CallTransform
    \/ CallGrowthPredictionRecord
    \/ CallAdoptionInsights
    \/ Return

SpecPure == InitPure /\ [][NextPure]_vars

\* ----------------------------------------------------------- properties

\* The latest operation is a generate_insights call that returned a list.
Returned == last.op = "generate" /\ last.outcome # "error"

\* The key of the latest operation's filter held an entry when the operation
\* began, and that entry was younger than the TTL, or not.
FoundFresh == last.found /\ last.at - last.stored < TTL_MINUTES

FoundStale == last.found /\ last.at - last.stored >= TTL_MINUTES

\* C1, as stated: two generate_insights calls with the same filter, the
\* second less than the TTL after the first, with the same data (and no
\* clear() in between), return the same sequence, computed_at included.
C1_SameWithinTTLOfFirstCall ==
    (/\ Returned
     /\ last.earlier.valid
     /\ ~last.earlier.cleared
     /\ last.at - last.earlier.at < TTL_MINUTES)
        => last.result = last.earlier.result

\* C1, amended: the two calls return the same sequence, computed_at
\* included, when the second is made less than the TTL after the cache entry
\* the first call returned was stored (which is the time of the first call
\* only if that call computed its result), with the same data and no clear()
\* in between.
C1_SameWithinTTLOfStoredEntry ==
    (/\ Returned
     /\ last.earlier.valid
     /\ ~last.earlier.cleared
     /\ last.at - last.earlier.stored < TTL_MINUTES)
        => last.result = last.earlier.result

\* A later second call is answered with the insights the first one returned,
\* whose computed_at is older than the clock.
C1_Witness ==
    /\ Returned
    /\ last.earlier.valid
    /\ ~last.earlier.cleared
    /\ last.at > last.earlier.at
    /\ last.at - last.earlier.stored < TTL_MINUTES
    /\ last.result # <<>>
    /\ last.result[1].computed_at < last.at

\* C2: a stale entry is never served.  A lookup hits only an entry younger
\* than the TTL and what it returns is that entry; a lookup that finds an
\* entry of age >= TTL misses, removes the entry and, inside
\* generate_insights, leads to the loaders and (when they succeed) the
\* generators; a hit leaves the cache, timestamps included, as it was.
C2_StaleNeverServed ==
    last.op \in {"get", "generate"} =>
        LET key == generate_key(last.filters)
        IN  /\ last.hit => FoundFresh
            /\ (last.op = "generate" /\ last.outcome = "cached")
                  => (FoundFresh /\ last.result = last.held)
            /\ (last.op = "get" /\ last.result # <<>>)
                  => (FoundFresh /\ last.result = last.held)
            /\ FoundStale =>
                  /\ ~last.hit
                  /\ key \notin DOMAIN last.after_get
                  /\ last.op = "generate" =>
                        /\ last.outcome # "cached"
                        /\ last.loads > 0
                        /\ last.fault = "none" =>
                              (last.outcome = "computed" /\ last.generated)
            /\ last.hit =>
                  /\ last.after_get = last.cache_before
                  /\ last.after_get[key].timestamp = last.stored
            /\ (last.op = "generate" /\ last.outcome = "cached") =>
                  cache[key].timestamp = last.stored

\* generate_insights finds an entry of age >= TTL and recomputes.
C2_Witness ==
    /\ last.op = "generate"
    /\ FoundStale
    /\ last.outcome = "computed"
    /\ last.result # last.held

\* C3, as stated: a generate_insights call that finds an entry younger than
\* the TTL returns that entry's sequence, calls no loader, runs no generator
\* and leaves the entry and its timestamp as they were, whatever the length
\* of the cached sequence.
C3_FreshEntryIsServed ==
    (last.op = "generate" /\ FoundFresh) =>
        /\ last.outcome = "cached"
        /\ last.result = last.held
        /\ last.loads = 0
        /\ ~last.generated
        /\ cache = last.cache_before

\* a appears in b as often as in a, for every element: b is a permutation of a
IsPermutation(a, b) ==
    /\ Len(a) = Len(b)
    /\ \A i \in 1..Len(a) :
          Cardinality({j \in 1..Len(a) : a[j] = a[i]})
              = Cardinality({j \in 1..Len(b) : b[j] = a[i]})

\* Two filter requests that differ in the order of their lists at most.
SameRequest(f, g) ==
    /\ f.years.none = g.years.none
    /\ f.industries.none = g.industries.none
    /\ IsPermutation(f.years.list, g.years.list)
    /\ IsPermutation(f.industries.list, g.industries.list)

\* C4, as stated: requests whose lists are permutations of each other have
\* the same key, so a call that finds a non-empty entry younger than the TTL
\* stored under an equivalent request is answered from it.
C4_KeyIsOrderInsensitive ==
    \A g \in Filters :
        (/\ last.op = "generate"
         /\ SameRequest(last.filters, g)
         /\ generate_key(g) \in DOMAIN last.cache_before
         /\ last.at - last.cache_before[generate_key(g)].timestamp < TTL_MINUTES
         /\ last.cache_before[generate_key(g)].insights # <<>>)
            => /\ generate_key(g) = generate_key(last.filters)
               /\ last.outcome = "cached"
               /\ last.result = last.cache_before[generate_key(g)].insights

\* A loader was called by the latest generate_insights call and raised.
LoaderFailed == last.op = "generate" /\ last.fault # "none" /\ last.loads > 0

\* C5, as stated: when a loader fails during generate_insights the error
\* reaches the caller and the cache is exactly as it was before the call.
C5_ErrorLeavesCacheUntouched ==
    LoaderFailed => (last.outcome = "error" /\ cache = last.cache_before)

\* C5, amended: when a loader fails during generate_insights the error
\* reaches the caller, no list is returned and no entry is written; the
\* cache is as it was before the call except that an entry of age >= TTL
\* under the filter's key has been evicted by the lookup.
C5_ErrorWritesNothing ==
    LoaderFailed =>
        LET key == generate_key(last.filters)
            evicted == IF FoundStale THEN {key} ELSE {}
        IN  /\ last.outcome = "error"
            /\ ~last.generated
            /\ cache = [k \in DOMAIN last.cache_before \ evicted |-> last.cache_before[k]]

\* A loader fails in a call that found a stale entry under its key.
C5_Witness ==
    /\ LoaderFailed
    /\ last.outcome = "error"
    /\ FoundStale
    /\ generate_key(last.filters) \notin DOMAIN cache

\* The categories in generator order.
CategoryOrder ==
    <<"adoption_trends", "correlation_analysis", "growth_trends", "investment_analysis">>

CategoryRank(c) == CHOOSE i \in 1..Len(CategoryOrder) : CategoryOrder[i] = c

\* C6: every returned sequence has at most four insights, at most one per
\* category, in the order adoption_trends, correlation_analysis,
\* growth_trends, investment_analysis.
C6_FixedCategoryOrder ==
    Returned =>
        /\ Len(last.result) <= Len(CategoryOrder)
        /\ \A i \in 1..Len(last.result) :
              \E k \in 1..Len(CategoryOrder) : last.result[i].category = CategoryOrder[k]
        /\ \A i, j \in 1..Len(last.result) :
              i < j => CategoryRank(last.result[i].category)
                           < CategoryRank(last.result[j].category)

\* A call returns one insight of every category.
C6_Witness == Returned /\ Len(last.result) = Len(CategoryOrder)

\* C7: every returned insight has 0 <= confidence <= 0.95.
C7_ConfidenceBounded ==
    Returned =>
        \A i \in 1..Len(last.result) :
            0 <= last.result[i].confidence /\ last.result[i].confidence <= 950

\* A returned insight whose confidence sits at the cap.
C7_Witness ==
    /\ Returned
    /\ \E i \in 1..Len(last.result) : last.result[i].confidence = 950

\* The element of the index set idx with j - 1 elements below it.
NthOf(idx, j) == CHOOSE i \in idx : Cardinality({k \in idx : k <= i}) = j

\* result is records restricted to the indices idx, in the original order.
IsSelection(result, records, idx) ==
    /\ Len(result) = Cardinality(idx)
    /\ \A j \in 1..Len(result) : result[j] = records[NthOf(idx, j)]

\* The indices a list-filter pair admits; given_y and given_i say whether
\* the year and the industry filter count as given.
ListAdmitted(records, years, industries, given_y, given_i) ==
    {i \in 1..Len(records) :
        /\ ~given_y \/ InList(records[i].year, years.list)
        /\ ~given_i \/ InList(records[i].industry, industries.list)}

\* The same for a pair of single-value filters.
ValueAdmitted(records, year_filter, industry_filter, given_y, given_i) ==
    {i \in 1..Len(records) :
        /\ ~given_y \/ records[i].year = year_filter.value
        /\ ~given_i \/ records[i].industry = industry_filter.value}

C9_PredictionWithinInterval ==
    (probe.fn = "GrowthPredictionRecord" /\ probe.constructed) =>
        /\ probe.raw.confidence_interval_low <= probe.raw.predicted_adoption
        /\ probe.raw.predicted_adoption <= probe.raw.confidence_interval_high
        /\ probe.raw.confidence_interval_high <= RateScale

\* C10: the adoption generator emits one insight when some industry's mean
\* adoption_rate exceeds 0.6 and none otherwise; the insight has category
\* adoption_trends, names an industry of maximal mean and has confidence
\* min(0.95, k / 10), k the number of records of that industry.
C10_AdoptionLeader ==
    probe.fn = "adoption_insights" =>
        LET records == probe.records
            result == probe.result
            industries == {records[i].industry : i \in 1..Len(records)}
            Count(ind) == Cardinality({i \in 1..Len(records) : records[i].industry = ind})
            Total(ind) == SumSeq([i \in 1..Len(records) |->
                              IF records[i].industry = ind
                              THEN records[i].adoption_rate ELSE 0])
            some_high == \E ind \in industries :
                             10 * Total(ind) > 6 * RateScale * Count(ind)
        IN  /\ Len(result) = (IF some_high THEN 1 ELSE 0)
            /\ some_high =>
                  /\ result[1].category = "adoption_trends"
                  /\ result[1].subject \in industries
                  /\ \A ind \in industries :
                        Total(result[1].subject) * Count(ind)
                            >= Total(ind) * Count(result[1].subject)
                  /\ result[1].confidence
                        = Min(950, (Count(result[1].subject) * Milli) \div 10)

\* The generator names the leader among three industries, at the cap.
C10_Witness ==
    /\ probe.fn = "adoption_insights"
    /\ Len(probe.result) = 1
    /\ probe.result[1].confidence = 950
    /\ Cardinality({probe.records[i].industry : i \in 1..Len(probe.records)}) = 3

\* ------------------------------------------- the statistics functions

\* The (industry, year) keys of the rows offered to the correlation generator.
CorrelationKeys ==
    << <<"Healthcare", 2022>>, <<"Healthcare", 2023>>,
       <<"Finance", 2022>>, <<"Finance", 2023>> >>

\* The adoption rates a row may carry, tenths.
AdoptionChoices == <<2, 5, 8>>

\* The usage fractions a row may carry, tenths: all five equal, or mixed.
UsageChoices == << <<2, 2, 2, 2, 2>>, <<5, 2, 4, 9, 1>>, <<8, 8, 8, 8, 8>> >>

\* The concatenation of a sequence of sequences
RECURSIVE Flatten(_)
Flatten(ss) == IF ss = <<>> THEN <<>> ELSE Head(ss) \o Flatten(Tail(ss))

GenAIRow(k, j) ==
    GenAI(CorrelationKeys[k][1], CorrelationKeys[k][2], AdoptionChoices[j], 3, 10)

AWSRow(k, j) ==
    LET u == UsageChoices[j]
    IN  AWS(CorrelationKeys[k][1], CorrelationKeys[k][2], u[1], u[2], u[3], u[4], u[5])

\* A choice vector c leaves key k out when c[k] = 0 and gives it the row of
\* choice c[k] otherwise; the rows come in key order.
GenAIInputs ==
    {Flatten([k \in 1..Len(CorrelationKeys) |->
                 IF c[k] = 0 THEN <<>> ELSE <<GenAIRow(k, c[k])>>]) :
        c \in [1..Len(CorrelationKeys) -> 0..Len(AdoptionChoices)]}

AWSInputs ==
    {Flatten([k \in 1..Len(CorrelationKeys) |->
                 IF c[k] = 0 THEN <<>> ELSE <<AWSRow(k, c[k])>>]) :
        c \in [1..Len(CorrelationKeys) -> 0..Len(UsageChoices)]}

\* InsightsEngine._generate_correlation_insights(genai_records, aws_records)
CallCorrelationInsights ==
    /\ probe = Idle
    /\ \E genai_records \in GenAIInputs, aws_records \in AWSInputs :
            probe' = [fn |-> "correlation_insights",
                      genai_records |-> genai_records, aws_records |-> aws_records,
                      result |-> generate_correlation_insights(
                                     genai_records, aws_records, now)]
    /\ UNCHANGED <<now, cache, ds, pipeline, last, watch, hist, calls>>

\* Adoption rows in which the first key is present and may come twice: a
\* second row of the first key is put before or after the others.
RepeatedGenAIInputs ==
    LET base == {g \in GenAIInputs :
                    /\ InList(CorrelationKeys[1], LookupKeys(g))
                    /\ \A i \in 1..Len(g) :
                           KeyOf(g[i]) = CorrelationKeys[4] => g[i] = GenAIRow(4, 3)}
    IN  UNION {{<<GenAIRow(1, j)>> \o g, g \o <<GenAIRow(1, j)>>} :
                  g \in base, j \in 1..Len(AdoptionChoices)}

\* Usage rows that hold the first, third and fourth key, with the first key
\* possibly a second time at the end.
RepeatedAWSInputs ==
    LET base == {a \in AWSInputs :
                    /\ InList(CorrelationKeys[1], LookupKeys(a))
                    /\ InList(AWSRow(3, 1), a)
                    /\ InList(AWSRow(4, 3), a)}
    IN  base \cup {a \o <<AWSRow(1, j)>> : a \in base, j \in 1..Len(UsageChoices)}

\* InsightsEngine._generate_correlation_insights(genai_records, aws_records)
\* on lists that hold a key more than once
CallRepeatedCorrelationInsights ==
    /\ probe = Idle
    /\ \E genai_records \in RepeatedGenAIInputs, aws_records \in RepeatedAWSInputs :
            probe' = [fn |-> "repeated_correlation_insights",
                      genai_records |-> genai_records, aws_records |-> aws_records,
                      result |-> generate_correlation_insights(
                                     genai_records, aws_records, now)]
    /\ UNCHANGED <<now, cache, ds, pipeline, last, watch, hist, calls>>

NextCorrelation ==
    \/ CallRepeatedCorrelationInsights
    \/ CallCorrelationInsights
    \/ Return

SpecCorrelation == InitPure /\ [][NextCorrelation]_vars

\* The index of the record of the list that has the (industry, year) key.
IndexOfKey(records, key) ==
    CHOOSE i \in 1..Len(records) :
        records[i].industry = key[1] /\ records[i].year = key[2]

HasKey(records, key) ==
    \E i \in 1..Len(records) : records[i].industry = key[1] /\ records[i].year = key[2]

\* 0.3*bedrock + 0.3*sagemaker + 0.2*lambda + 0.1*s3 + 0.1*ec2, in a tenth of
\* the fractions' unit (hundredths of fractions given in tenths)
WeightedUsage(r) ==
    3 * r.bedrock_usage + 3 * r.sagemaker_usage + 2 * r.lambda_usage
        + r.s3_usage + r.ec2_usage

\* C11: the correlation generator emits one correlation_analysis insight
\* iff at least 3 (industry, year) keys have both an adoption and a usage
\* record and the Pearson coefficient r of adoption rate against composite
\* usage score over those pairs has |r| > 0.3; the insight is labelled strong
\* iff |r| > 0.7, moderate otherwise, positive or negative by the sign of r,
\* with the confidence scorer's value for (p, n, |r|).  Equal adoption rates
\* or equal usage scores give no insight, however many pairs match.
C11_CorrelationInsight ==
    probe.fn = "correlation_insights" =>
        LET genai == probe.genai_records
            aws == probe.aws_records
            result == probe.result
            matched == {k \in 1..Len(CorrelationKeys) :
                           HasKey(genai, CorrelationKeys[k]) /\ HasKey(aws, CorrelationKeys[k])}
            n == Cardinality(matched)
            key(j) == CorrelationKeys[NthOf(matched, j)]
            xs == [j \in 1..n |-> genai[IndexOfKey(genai, key(j))].adoption_rate]
            ys == [j \in 1..n |-> WeightedUsage(aws[IndexOfKey(aws, key(j))])]
            corr == calculate_pearson_correlation(xs, ys)
            r == corr[1]
            constant(v) == \A i, j \in 1..n : v[i] = v[j]
            emit == n >= 3 /\ Abs(r) > 300
        IN  /\ Len(result) = (IF emit THEN 1 ELSE 0)
            /\ (n >= 3 /\ (constant(xs) \/ constant(ys))) => (r = 0 /\ result = <<>>)
            /\ emit =>
                  /\ result[1].category = "correlation_analysis"
                  /\ result[1].statistical_data.correlation_coefficient = r
                  /\ result[1].statistical_data.sample_size = n
                  /\ result[1].statistical_data.strength
                        = (IF Abs(r) > 700 THEN "strong" ELSE "moderate")
                  /\ result[1].statistical_data.direction
                        = (IF r > 0 THEN "positive" ELSE "negative")
                  /\ result[1].confidence = calculate_confidence(corr[2], n, Abs(r))

\* A moderate negative correlation over four matched pairs is reported.
C11_Witness ==
    /\ probe.fn = "correlation_insights"
    /\ Len(probe.result) = 1
    /\ probe.result[1].statistical_data.sample_size = 4
    /\ probe.result[1].statistical_data.strength = "moderate"
    /\ probe.result[1].statistical_data.direction = "negative"

\* ------------------------------------------- growth and investment inputs

\* The (industry, year) slots of the rows offered to the growth generator:
\* five years of one industry, two of another.
GrowthSlots ==
    << <<"Healthcare", 2020>>, <<"Healthcare", 2021>>, <<"Healthcare", 2022>>,
       <<"Healthcare", 2023>>, <<"Healthcare", 2024>>,
       <<"Finance", 2021>>, <<"Finance", 2022>> >>

\* The adoption rates a slot may carry, tenths, by industry.
GrowthChoices(industry) == IF industry = "Healthcare" THEN <<5, 8>> ELSE <<0, 5, 8>>

GrowthRow(k, j) ==
    GenAI(GrowthSlots[k][1], GrowthSlots[k][2], GrowthChoices(GrowthSlots[k][1])[j], 3, 10)

\* A second row for (Healthcare, 2022), which makes that year's mean 0.55
\* when the first carries 0.5.
SecondRow == GenAI("Healthcare", 2022, 6, 3, 10)

GrowthInputs ==
    {Flatten([k \in 1..Len(GrowthSlots) |->
                 IF c[k] = 0 THEN <<>> ELSE <<GrowthRow(k, c[k])>>]) \o extra :
        c \in {v \in [1..Len(GrowthSlots) -> 0..3] :
                  \A k \in 1..Len(GrowthSlots) :
                      v[k] <= Len(GrowthChoices(GrowthSlots[k][1]))},
        extra \in {<<>>, <<SecondRow>>}}

GrowthYearArgs == {None, Some(<<2021, 2022>>)}

GrowthIndustryArgs == {None, Some(<<"Finance">>)}

\* InsightsEngine._generate_growth_insights(all_records, years, industries)
CallGrowthInsights ==
    /\ probe = Idle
    /\ \E all_records \in GrowthInputs, years \in GrowthYearArgs,
          industries \in GrowthIndustryArgs :
            probe' = [fn |-> "growth_insights", records |-> all_records,
                      years |-> years, industries |-> industries,
                      result |-> generate_growth_insights(
                                     all_records, years, industries, now)]
    /\ UNCHANGED <<now, cache, ds, pipeline, last, watch, hist, calls>>

\* Inputs of the investment generator: short lists over two industries with
\* ratios 2.0, 1.0 and 2.0 and rows without use cases, alone or after seven
\* rows of a third industry with ratio 1.0.
InvestmentRecords ==
    {GenAI(i, 2023, 5, e[1], e[2]) :
        i \in {"Healthcare", "Finance"},
        e \in {<<5, 10>>, <<2, 2>>, <<0, 5>>, <<2, 4>>}}

SevenRows == [i \in 1..7 |-> GenAI("Technology", 2022, 5, 3, 3)]

InvestmentInputs ==
    {base \o s : base \in {<<>>, SevenRows}, s \in SeqsUpTo(InvestmentRecords, MaxRecs)}

\* InsightsEngine._generate_investment_insights(records)
CallInvestmentInsights ==
    /\ probe = Idle
    /\ \E records \in InvestmentInputs :
            probe' = [fn |-> "investment_insights", records |-> records,
                      result |-> generate_investment_insights(records, now)]
    /\ UNCHANGED <<now, cache, ds, pipeline, last, watch, hist, calls>>

\* a / b of Python on exact values: ZeroDivisionError where b is 0
divide(a, b) ==
    IF b.num = 0 THEN [raised |-> TRUE, value |-> Rat(0, 1)]
    ELSE [raised |-> FALSE,
          value |-> IF b.num > 0 THEN Rat(a.num * b.den, a.den * b.num)
                    ELSE Rat(-(a.num * b.den), a.den * (-b.num))]

\* (curr_avg - prev_avg) / prev_avg
growth_between(prev_avg, curr_avg) ==
    divide(Rat(curr_avg.num * prev_avg.den - prev_avg.num * curr_avg.den,
               curr_avg.den * prev_avg.den),
           prev_avg)

\* KPIService._compute_fastest_growing_industry: raised tells whether a
\* division raised, industry is "" where the method answers None
compute_fastest_growing_industry(all_records, year_filter, industry_filter) ==
    LET kept == SelectSeq(all_records, LAMBDA r :
                    ~(TruthyStr(industry_filter) /\ r.industry # industry_filter.value))
        steps(ind) ==
            LET years == YearsSorted(kept, ind)
                taken == SelectSeq([i \in 1..(Len(years) - 1) |-> i + 1], LAMBDA i :
                             /\ ~(TruthyInt(year_filter) /\ years[i] # year_filter.value)
                             /\ YearAverage(kept, ind, years[i - 1]).num > 0)
            IN  [n \in 1..Len(taken) |->
                    growth_between(YearAverage(kept, ind, years[taken[n] - 1]),
                                   YearAverage(kept, ind, years[taken[n]]))]
        all_industries == Distinct(MapIndustry(kept))
        growing == SelectSeq(all_industries, LAMBDA ind : steps(ind) # <<>>)
        industry_growth_rates ==
            [i \in 1..Len(growing) |->
                RatMean([n \in 1..Len(steps(growing[i])) |-> steps(growing[i])[n].value])]
    IN  IF \E i \in 1..Len(growing) : \E n \in 1..Len(steps(growing[i])) :
               steps(growing[i])[n].raised
        THEN [raised |-> TRUE, industry |-> "", growth_rate |-> Rat(0, 1)]
        ELSE IF growing = <<>>
        THEN [raised |-> FALSE, industry |-> "", growth_rate |-> Rat(0, 1)]
        ELSE [raised |-> FALSE,
              industry |-> growing[FirstMaxIdx(industry_growth_rates)],
              growth_rate |-> industry_growth_rates[FirstMaxIdx(industry_growth_rates)]]

\* DataProcessor._generate_growth_trends, the year-over-year part: the
\* growth between the means of the first and the last year, over all
\* industries; the division has no guard
generate_growth_trends(genai_records) ==
    LET years == Sorted({genai_records[i].year : i \in 1..Len(genai_records)})
        average(year) ==
            LET rs == SelectSeq(genai_records, LAMBDA r : r.year = year)
            IN  IntMean([i \in 1..Len(rs) |-> rs[i].adoption_rate])
    IN  IF Len(years) > 1
        THEN LET growth == growth_between(average(years[1]), average(years[Len(years)]))
             IN  [raised |-> growth.raised, trends |-> IF growth.raised THEN 0 ELSE 1,
                  growth_rate |-> growth.value]
        ELSE [raised |-> FALSE, trends |-> 0, growth_rate |-> Rat(0, 1)]

\* the three growth computations on one list of adoption records
CallGrowthComputations ==
    /\ probe = Idle
    /\ \E all_records \in GrowthInputs, year_filter \in {NoneInt, SomeValue(2022)} :
            probe' = [fn |-> "growth_computations", records |-> all_records,
                      year_filter |-> year_filter,
                      engine |-> generate_growth_insights(all_records, None, None, now),
                      kpi |-> compute_fastest_growing_industry(all_records, year_filter, NoneStr),
                      processor |-> generate_growth_trends(all_records)]
    /\ UNCHANGED <<now, cache, ds, pipeline, last, watch, hist, calls>>

\* Years arguments that name no year, one year, a year without data, and
\* two years that are not adjacent, in either order.
SparseYearArgs ==
    {Some(<<>>), Some(<<2022>>), Some(<<2019, 2022>>), Some(<<2020, 2022>>),
     Some(<<2023, 2021>>)}

\* InsightsEngine._generate_growth_insights(all_records, years, None) on the
\* records of the first industry
CallGrowthInsightsByYears ==
    /\ probe = Idle
    /\ \E all_records \in {g \in GrowthInputs :
                               \A i \in 1..Len(g) : g[i].industry = GrowthSlots[1][1]},
          years \in SparseYearArgs :
            probe' = [fn |-> "growth_insights", records |-> all_records,
                      years |-> years, industries |-> None,
                      result |-> generate_growth_insights(all_records, years, None, now)]
    /\ UNCHANGED <<now, cache, ds, pipeline, last, watch, hist, calls>>

NextGenerators ==
    \/ CallGrowthInsightsByYears
    \/ CallGrowthComputations
    \/ CallGrowthInsights
    \/ CallInvestmentInsights
    \/ Return

SpecGenerators == InitPure /\ [][NextGenerators]_vars

C13_InvestmentLeader ==
    probe.fn = "investment_insights" =>
        LET records == probe.records
            result == probe.result
            counted == {i \in 1..Len(records) : records[i].use_cases_count > 0}
            industries == {records[i].industry : i \in counted}
            Rows(ind) == {i \in counted : records[i].industry = ind}
            Ratio(i) == Rat(records[i].investment_millions, records[i].use_cases_count)
            Average(ind) ==
                RatMean([j \in 1..Cardinality(Rows(ind)) |-> Ratio(NthOf(Rows(ind), j))])
        IN  /\ Len(result) = (IF counted # {} THEN 1 ELSE 0)
            /\ counted # {} =>
                  /\ result[1].category = "investment_analysis"
                  /\ result[1].subject \in industries
                  /\ \A ind \in industries :
                        ~RatLess(Average(ind), Average(result[1].subject))
                  /\ result[1].statistical_data.efficiency_ratio
                        = Average(result[1].subject)
                  /\ result[1].confidence
                        = Min(850, (Cardinality(Rows(result[1].subject)) * Milli) \div 8)
            /\ records = <<GenAI("Healthcare", 2023, 5, 5, 10), GenAI("Finance", 2023, 5, 2, 2)>>
                  => /\ Len(result) = 1
                     /\ result[1].subject = "Finance"
                     /\ result[1].confidence = 125

\* The example of the text, with a row without use cases in front.
C13_Witness ==
    /\ probe.fn = "investment_insights"
    /\ probe.records = <<GenAI("Finance", 2023, 5, 0, 5),
                         GenAI("Healthcare", 2023, 5, 5, 10),
                         GenAI("Finance", 2023, 5, 2, 2)>>
    /\ Len(probe.result) = 1
    /\ probe.result[1].subject = "Finance"
    /\ probe.result[1].confidence = 125

\* ------------------------------------------------- the scorer's inputs

\* p-values, thousandths: the five the significance functions return, and
\* the ends and the middle of [0, 1].
PValues == {0, 1, 10, 50, 100, 200, 500, 1000}

SampleSizes == {0, 1, 2, 3, 4, 5, 10, 50, 100, 200}

\* effect sizes, thousandths, of either sign
EffectSizes == {-2000, -500, 0, 300, 700, 1000, 3000}

\* InsightsEngine._calculate_confidence(p_value, n, cohens_d)
CallConfidence ==
    /\ probe = Idle
    /\ \E p_value \in PValues, n \in SampleSizes, cohens_d \in EffectSizes :
            probe' = [fn |-> "confidence", p_value |-> p_value, n |-> n,
                      cohens_d |-> cohens_d,
                      result |-> calculate_confidence(p_value, n, cohens_d)]
    /\ UNCHANGED <<now, cache, ds, pipeline, last, watch, hist, calls>>

\* The samples offered to the correlation functions: values in tenths, of
\* every length up to MaxSample, constant ones included.
Samples == SeqsUpTo({2, 5, 8}, MaxSample)

\* InsightsEngine._calculate_pearson_correlation(x_values, y_values)
CallPearson ==
    /\ probe = Idle
    /\ \E x_values \in Samples, y_values \in Samples :
            probe' = [fn |-> "pearson", impl |-> "engine",
                      x |-> x_values, y |-> y_values,
                      result |-> calculate_pearson_correlation(x_values, y_values)]
    /\ UNCHANGED <<now, cache, ds, pipeline, last, watch, hist, calls>>

\* DataProcessor._calculate_pearson_correlation(x_values, y_values)
CallProcessorPearson ==
    /\ probe = Idle
    /\ \E x_values \in Samples, y_values \in Samples :
            probe' = [fn |-> "pearson", impl |-> "processor",
                      x |-> x_values, y |-> y_values,
                      result |-> <<processor_calculate_pearson_correlation(
                                      x_values, y_values)>>]
    /\ UNCHANGED <<now, cache, ds, pipeline, last, watch, hist, calls>>

\* Rows for calculate_correlation_analysis: those of the correlation
\* generator with two of the three choices per key.
AnalysisGenAIInputs ==
    {g \in GenAIInputs : \A i \in 1..Len(g) : g[i].adoption_rate # 5}

AnalysisAWSInputs ==
    {a \in AWSInputs : \A i \in 1..Len(a) : a[i].bedrock_usage # 2}

\* A second row for the key (Healthcare, 2022) in either list, with values
\* that no first row of the analysis inputs carries.
RepeatedRows ==
    [genai |-> <<GenAI("Healthcare", 2022, 5, 3, 10)>>,
     aws |-> <<AWS("Healthcare", 2022, 2, 2, 2, 2, 2)>>]

\* DataProcessor.calculate_correlation_analysis(genai_records, aws_records,
\* year_filter)
CallCorrelationAnalysis ==
    /\ probe = Idle
    /\ \E genai \in AnalysisGenAIInputs, aws \in AnalysisAWSInputs,
          more_genai \in {<<>>, RepeatedRows.genai}, more_aws \in {<<>>, RepeatedRows.aws},
          year_filter \in {NoneInt, SomeValue(2022)} :
            LET genai_records == genai \o more_genai
                aws_records == aws \o more_aws
            IN  probe' = [fn |-> "correlation_analysis",
                          genai_records |-> genai_records, aws_records |-> aws_records,
                          year_filter |-> year_filter,
                          result |-> calculate_correlation_analysis(
                                         genai_records, aws_records, year_filter)]
    /\ UNCHANGED <<now, cache, ds, pipeline, last, watch, hist, calls>>

\* coefficients, thousandths, around the thresholds of the significance
\* function
Coefficients == {-1000, -999, -998, -900, -500, 0, 300, 500, 866, 950, 998, 999, 1000}

\* DataProcessor._calculate_statistical_significance(correlation, sample_size)
CallSignificance ==
    /\ probe = Idle
    /\ \E correlation \in Coefficients, sample_size \in SampleSizes :
            probe' = [fn |-> "significance", correlation |-> correlation,
                      sample_size |-> sample_size,
                      result |-> calculate_statistical_significance(
                                     correlation, sample_size)]
    /\ UNCHANGED <<now, cache, ds, pipeline, last, watch, hist, calls>>

\* usage fractions in thousandths
FineUsage == {0, 123, 500, 1000}

\* the composite usage score of one usage record, as the processor computes
\* it (thousandths) and as the correlation generator computes it (tenths of
\* a thousandth)
CallUsageScore ==
    /\ probe = Idle
    /\ \E b \in FineUsage, s \in FineUsage, l \in FineUsage, s3 \in FineUsage, e \in FineUsage :
            LET record == AWS("Healthcare", 2022, b, s, l, s3, e)
            IN  probe' = [fn |-> "usage_score", record |-> record,
                          processor |-> calculate_aws_usage_score_at(record, Milli),
                          engine |-> aws_score(record)]
    /\ UNCHANGED <<now, cache, ds, pipeline, last, watch, hist, calls>>

NextStats ==
    \/ CallUsageScore
    \/ CallConfidence
    \/ CallPearson
    \/ CallProcessorPearson
    \/ CallCorrelationAnalysis
    \/ CallSignificance
    \/ Return

SpecStats == InitPure /\ [][NextStats]_vars

\* C14: _calculate_confidence(p, n, d) is min(0.95, (1-p) * (n/100) *
\* (1 + |d|/2)) rounded to 3 decimals; it does not decrease when n grows,
\* does not increase when p grows, is never negative and never above 0.95.
C14_ConfidenceScorer ==
    probe.fn = "confidence" =>
        LET p == probe.p_value
            n == probe.n
            d == probe.cohens_d
            \* (1-p) * (n/100) * (1 + |d|/2) in units of 1 / (200 * Milli) thousandths
            unit == 200 * Milli
            product == (Milli - p) * n * (2 * Milli + Abs(d))
            capped == IF product <= 950 * unit THEN product ELSE 950 * unit
        IN  /\ 2 * Abs(probe.result * unit - capped) <= unit
            /\ 0 <= probe.result
            /\ probe.result <= 950
            /\ \A m \in SampleSizes :
                  m >= n => calculate_confidence(p, m, d) >= probe.result
            /\ \A q \in PValues :
                  q >= p => calculate_confidence(q, n, d) <= probe.result

\* The cap is active, and a larger n or smaller p cannot raise the score.
C14_Witness ==
    /\ probe.fn = "confidence"
    /\ probe.result = 950
    /\ probe.n = 100
    /\ probe.p_value = 10

\* The coefficient either implementation returns for samples x and y.
Corr(impl, x, y) ==
    IF impl = "engine" THEN calculate_pearson_correlation(x, y)[1]
    ELSE processor_calculate_pearson_correlation(x, y)

IsConstant(v) == \A i, j \in 1..Len(v) : v[i] = v[j]

\* C15: for samples of equal length, at least 2 points and nonzero variance
\* in both, corr(x, y) = corr(y, x), corr(x, x) is within 0.001 of 1.0 and
\* -1 <= corr(x, y) <= 1, in both implementations; the coefficient that
\* calculate_correlation_analysis reports is within [-1, 1].
C15_PearsonSymmetricBounded ==
    /\ (/\ probe.fn = "pearson"
        /\ Len(probe.x) = Len(probe.y)
        /\ Len(probe.x) >= 2
        /\ ~IsConstant(probe.x)
        /\ ~IsConstant(probe.y))
          => /\ probe.result[1] = Corr(probe.impl, probe.x, probe.y)
             /\ probe.result[1] = Corr(probe.impl, probe.y, probe.x)
             /\ Abs(Corr(probe.impl, probe.x, probe.x) - Milli) <= 1
             /\ -Milli <= probe.result[1]
             /\ probe.result[1] <= Milli
    /\ probe.fn = "correlation_analysis"
          => /\ -Milli <= probe.result.correlation_coefficient
             /\ probe.result.correlation_coefficient <= Milli

\* A coefficient strictly between 0 and -1 from the processor's function.
C15_Witness ==
    /\ probe.fn = "pearson"
    /\ probe.impl = "processor"
    /\ Len(probe.x) = 3
    /\ Len(probe.y) = 3
    /\ probe.result[1] < 0
    /\ probe.result[1] > -Milli

\* C16: for samples of equal length with fewer than 2 elements, or with x
\* constant, or with y constant, both correlation functions return exactly
\* 0.0 (every call returns: neither function divides by the zero
\* denominator).
C16_PearsonDegenerate ==
    (/\ probe.fn = "pearson"
     /\ Len(probe.x) = Len(probe.y)
     /\ \/ Len(probe.x) < 2
        \/ IsConstant(probe.x)
        \/ IsConstant(probe.y))
        => probe.result[1] = 0

\* Three points, x constant and y not: the processor's function returns 0.
C16_Witness ==
    /\ probe.fn = "pearson"
    /\ probe.impl = "processor"
    /\ Len(probe.x) = 3
    /\ Len(probe.y) = 3
    /\ IsConstant(probe.x)
    /\ ~IsConstant(probe.y)
    /\ probe.result[1] = 0

\* t > c / 1000 for t = |r| * sqrt((n - 2) / (1 - r^2)), r in thousandths
TAbove(r, n, c) == FracLess(c * c, Milli * Milli, r * r * (n - 2), Milli * Milli - r * r)

\* The p-value, thousandths, that the four-bucket rule gives coefficient r
\* (thousandths) and sample size n.
BucketP(r, n) ==
    IF n < 3 THEN Milli
    ELSE IF Abs(r) >= 999 THEN 1
    ELSE IF TAbove(r, n, 2576) THEN 10
    ELSE IF TAbove(r, n, 1960) THEN 50
    ELSE IF TAbove(r, n, 1645) THEN 100
    ELSE 200

\* C17, as stated: wherever a p-value is produced, it is 1.0 if n < 3, else
\* 0.001 if |r| >= 0.999, else 0.01, 0.05, 0.10 or 0.20 by the thresholds
\* 2.576, 1.96 and 1.645 on t: in _calculate_statistical_significance, in
\* the statistical_significance of calculate_correlation_analysis, and in
\* the p-value of InsightsEngine._calculate_pearson_correlation (r and n
\* being the coefficient and the sample size returned with it).
C17_FourBucketSignificance ==
    /\ probe.fn = "significance"
          => probe.result = BucketP(probe.correlation, probe.sample_size)
    /\ probe.fn = "correlation_analysis"
          => probe.result.statistical_significance
                = BucketP(probe.result.correlation_coefficient, probe.result.sample_size)
    /\ (probe.fn = "pearson" /\ probe.impl = "engine")
          => probe.result[2] = BucketP(probe.result[1], probe.result[3])

\* the five fractions of a usage record are all v
AllFractions(r, v) ==
    /\ r.bedrock_usage = v /\ r.sagemaker_usage = v /\ r.lambda_usage = v
    /\ r.s3_usage = v /\ r.ec2_usage = v

\* C18, as stated: every composite usage score equals 0.3*bedrock +
\* 0.3*sagemaker + 0.2*lambda + 0.1*s3 + 0.1*ec2 rounded to 3 decimals (an
\* exact tie may go either way), a record whose five fractions all equal v
\* scores exactly v, and every score lies in [0, 1]: for the processor's
\* score and for the score the correlation generator feeds into Pearson.
C18_CompositeScoreRounded ==
    probe.fn = "usage_score" =>
        LET exact == WeightedUsage(probe.record)
        IN  /\ Abs(probe.processor * 10 - exact) <= 5
            /\ probe.engine % 10 = 0 /\ Abs(probe.engine - exact) <= 5
            /\ probe.processor \in 0..Milli /\ probe.engine \in 0..(10 * Milli)
            /\ \A v \in FineUsage :
                   AllFractions(probe.record, v)
                       => probe.processor = v /\ probe.engine = 10 * v

\* ------------------------------------------------------ concurrent calls

\* generate_insights calls on threads that share one InsightsEngine.  Nothing
\* in InsightCache or InsightsEngine takes a lock, so a thread switch can fall
\* between any two steps of get: the membership test, the read of the entry,
\* the expiry test (which calls datetime.utcnow and timedelta) and the del.

\* the filters the threads ask for
ThreadFilters == {NoFilters, [years |-> Some(<<2030>>), industries |-> None]}

At(t, pc) == calls[t].pc = pc

Goto(t, pc) == calls' = [calls EXCEPT ![t].pc = pc]

\* generate_insights is entered: filters = {...}; self.cache.get(filters)
Begin(t) ==
    /\ At(t, "idle")
    /\ \E f \in ThreadFilters :
           calls' = [calls EXCEPT ![t] = [NoCall EXCEPT !.pc = "contains", !.filters = f]]
    /\ UNCHANGED <<now, cache, ds, pipeline, last, watch, hist, probe>>

\* get: `if key in self.cache:`; without the key get returns None
GetContains(t) ==
    /\ At(t, "contains")
    /\ IF generate_key(calls[t].filters) \in DOMAIN cache
       THEN Goto(t, "read")
       ELSE Goto(t, "load")
    /\ UNCHANGED <<now, cache, ds, pipeline, last, watch, hist, probe>>

\* get: `insights, timestamp = self.cache[key]`, a KeyError without the key
GetRead(t) ==
    /\ At(t, "read")
    /\ LET key == generate_key(calls[t].filters)
       IN  IF key \in DOMAIN cache
           THEN calls' = [calls EXCEPT ![t].pc = "expiry",
                                       ![t].insights = cache[key].insights,
                                       ![t].timestamp = cache[key].timestamp]
           ELSE Goto(t, "raised")
    /\ UNCHANGED <<now, cache, ds, pipeline, last, watch, hist, probe>>

\* get: `if datetime.utcnow() - timestamp < timedelta(...): return insights`,
\* and `if cached_insights:` of generate_insights on what get returned
GetExpiry(t) ==
    /\ At(t, "expiry")
    /\ IF now - calls[t].timestamp < TTL_MINUTES
       THEN IF calls[t].insights # <<>> THEN Goto(t, "returned") ELSE Goto(t, "load")
       ELSE Goto(t, "del")
    /\ UNCHANGED <<now, cache, ds, pipeline, last, watch, hist, probe>>

\* get: `del self.cache[key]`, a KeyError without the key; then return None
GetDel(t) ==
    /\ At(t, "del")
    /\ LET key == generate_key(calls[t].filters)
       IN  IF key \in DOMAIN cache
           THEN /\ cache' = [k \in DOMAIN cache \ {key} |-> cache[k]]
                /\ Goto(t, "load")
           ELSE /\ Goto(t, "raised")
                /\ UNCHANGED cache
    /\ UNCHANGED <<now, ds, pipeline, last, watch, hist, probe>>

\* the loaders, the filters and the four generators
Load(t) ==
    /\ At(t, "load")
    /\ LET racing == {u \in Threads \ {t} : /\ calls[u].pc \in {"load", "set"}
                                            /\ calls[u].filters = calls[t].filters}
       IN  calls' = [u \in Threads |->
                        IF u = t
                        THEN [calls[t] EXCEPT !.pc = "set",
                                              !.insights = pipeline[calls[t].filters][now],
                                              !.duplicate = racing # {}]
                        ELSE IF u \in racing THEN [calls[u] EXCEPT !.duplicate = TRUE]
                        ELSE calls[u]]
    /\ UNCHANGED <<now, cache, ds, pipeline, last, watch, hist, probe>>

\* self.cache.set(filters, insights); return insights
Set(t) ==
    /\ At(t, "set")
    /\ cache' = cache_set(cache, calls[t].filters, calls[t].insights, now)
    /\ Goto(t, "returned")
    /\ UNCHANGED <<now, ds, pipeline, last, watch, hist, probe>>

\* the call is over: it returned, or its KeyError reached the caller
End(t) ==
    /\ At(t, "returned") \/ At(t, "raised")
    /\ calls' = [calls EXCEPT ![t] = NoCall]
    /\ UNCHANGED <<now, cache, ds, pipeline, last, watch, hist, probe>>

NextThreads ==
    \/ Tick
    \/ \E t \in Threads : Begin(t)
    \/ \E t \in Threads : GetContains(t)
    \/ \E t \in Threads : GetRead(t)
    \/ \E t \in Threads : GetExpiry(t)
    \/ \E t \in Threads : GetDel(t)
    \/ \E t \in Threads : Load(t)
    \/ \E t \in Threads : Set(t)
    \/ \E t \in Threads : End(t)

SpecThreads == Init /\ [][NextThreads]_vars

\* C19, as stated: when generate_insights calls run concurrently on one
\* engine, get and set are atomic with respect to each other, so no call
\* that saw its key in the cache fails afterwards, on the read or on the
\* eviction of the stale entry, because another call removed the entry.
C19_CacheAccessesSerialized == \A t \in Threads : ~At(t, "raised")

\* ---------------------------------------------------------- the HTTP routes

\* The outcome of a step of a handler: it went through, or it raised an
\* exception of a class, with the status code the exception carries.
Passed == [class |-> "none", status_code |-> 200]

Raised(class, status_code) == [class |-> class, status_code |-> status_code]

\* int(year.strip()) of a token of the years parameter; ok is FALSE where
\* int raises ValueError
int_of(token) ==
    CASE token = "2023" -> [ok |-> TRUE, value |-> 2023]
      [] token = " 2022" -> [ok |-> TRUE, value |-> 2022]
      [] token = "1999" -> [ok |-> TRUE, value |-> 1999]
      [] token = "2040" -> [ok |-> TRUE, value |-> 2040]
      [] OTHER -> [ok |-> FALSE, value |-> 0]

\* str.lower on the industry names in use
lower(name) ==
    CASE name = "Healthcare" -> "healthcare"
      [] name = "Finance" -> "finance"
      [] name = "Technology" -> "technology"
      [] name = "InvalidIndustry" -> "invalidindustry"
      [] OTHER -> name

\* validate_year_parameter(year): DataValidationError outside 2020..2033
validate_year_parameter(year) ==
    IF year < 2020 \/ year > current_year + 10
    THEN Raised("DataValidationError", 422)
    ELSE Passed

\* validate_industry_parameter(industry, valid_industries)
validate_industry_parameter(industry, valid_industries) ==
    IF \E i \in 1..Len(valid_industries) : lower(valid_industries[i]) = lower(industry)
    THEN Passed
    ELSE Raised("DataValidationError", 422)

\* the first exception a loop raises, outcomes[i] being the outcome of its
\* i-th round
FirstRaised(outcomes) ==
    IF \E i \in 1..Len(outcomes) : outcomes[i] # Passed
    THEN outcomes[CHOOSE i \in 1..Len(outcomes) :
                      /\ outcomes[i] # Passed
                      /\ \A j \in 1..(i - 1) : outcomes[j] = Passed]
    ELSE Passed

\* get_insights of insights_routes, lines 32-39: the comprehension parses
\* every token before the loop validates the first year
parse_years(years) ==
    IF ~Truthy(years) THEN Passed
    ELSE IF \E i \in 1..Len(years.list) : ~int_of(years.list[i]).ok
    THEN Raised("HTTPException", 400)
    ELSE FirstRaised([i \in 1..Len(years.list) |->
                          validate_year_parameter(int_of(years.list[i]).value)])

\* metadata.industries of load_genai_adoption_data
metadata_industries(d) == Distinct(MapIndustry(Datasets[d].genai))

\* get_insights of insights_routes, lines 41-47; loaded is FALSE where the
\* loader raises CSVLoadingError
check_industries(industries, d, loaded) ==
    IF ~Truthy(industries) THEN Passed
    ELSE IF ~loaded THEN Raised("CSVLoadingError", 500)
    ELSE FirstRaised([i \in 1..Len(industries.list) |->
                          validate_industry_parameter(industries.list[i], metadata_industries(d))])

\* the except clauses of the route handlers: the three named classes are
\* raised again, every other exception, HTTPException included, becomes a
\* DataProcessingError
route_except(raised) ==
    IF raised.class \in {"none", "CSVLoadingError", "DataNotFoundError", "DataProcessingError"}
    THEN raised
    ELSE Raised("DataProcessingError", 500)

\* the exception handlers main.py registers: the status of the response
response_status(raised) ==
    CASE raised.class = "none" -> 200
      [] raised.class = "CSVLoadingError" -> 500
      [] raised.class = "RequestValidationError" -> 422
      [] OTHER -> raised.status_code

\* get_insights of insights_routes: the status of the response
get_insights(years, industries, d, loaded) ==
    LET parsed == parse_years(years)
        checked == check_industries(industries, d, loaded)
        body == IF parsed # Passed THEN parsed
                ELSE IF checked # Passed THEN checked
                ELSE IF ~loaded THEN Raised("CSVLoadingError", 500)
                ELSE Passed
    IN  response_status(route_except(body))

\* get_all_kpis of kpi_routes: the status of the response.  year is the raw
\* token of an Optional[int] query parameter, which the framework converts
\* before the handler runs.
get_all_kpis(year, industry, d, loaded) ==
    IF ~year.none /\ ~int_of(year.list[1]).ok
    THEN response_status(Raised("RequestValidationError", 422))
    ELSE LET validated == IF year.none THEN Passed
                          ELSE validate_year_parameter(int_of(year.list[1]).value)
             checked == IF industry.none THEN Passed
                        ELSE IF ~loaded THEN Raised("CSVLoadingError", 500)
                        ELSE validate_industry_parameter(industry.list[1], metadata_industries(d))
             body == IF validated # Passed THEN validated
                     ELSE IF checked # Passed THEN checked
                     ELSE IF ~loaded THEN Raised("CSVLoadingError", 500)
                     ELSE Passed
         IN  response_status(route_except(body))

\* the tokens of a years parameter, split at the commas
YearTokens == {"2023", " 2022", "1999", "2040", "invalid", ""}

IndustryTokens == {"Healthcare", "finance", "InvalidIndustry"}

YearsParams == {None} \cup {Some(l) : l \in SeqsUpTo(YearTokens, 2) \ {<<>>, <<"">>}}

IndustriesParams == {None} \cup {Some(l) : l \in SeqsUpTo(IndustryTokens, 2) \ {<<>>}}

\* GET /api/v1/insights?years=...&industries=...
CallGetInsights ==
    /\ probe = Idle
    /\ \E years \in YearsParams, industries \in IndustriesParams, loaded \in BOOLEAN :
           probe' = [fn |-> "get_insights", years |-> years, industries |-> industries,
                     loaded |-> loaded,
                     status |-> get_insights(years, industries, ds, loaded)]
    /\ UNCHANGED <<now, cache, ds, pipeline, last, watch, hist, calls>>

\* GET /api/v1/kpis?year=...&industry=...
CallGetAllKpis ==
    /\ probe = Idle
    /\ \E year \in {None} \cup {Some(<<token>>) : token \in YearTokens \ {" 2022", ""}},
          industry \in {None} \cup {Some(<<name>>) : name \in IndustryTokens},
          loaded \in BOOLEAN :
           probe' = [fn |-> "get_all_kpis", years |-> year, industries |-> industry,
                     loaded |-> loaded,
                     status |-> get_all_kpis(year, industry, ds, loaded)]
    /\ UNCHANGED <<now, cache, ds, pipeline, last, watch, hist, calls>>

\* get_insights of insights_routes with one industry and no years, lines
\* 41-50: the industry is validated against the loader's metadata, then
\* handed to generate_insights, whose _apply_filters selects the records
CallValidatedFilter ==
    /\ probe = Idle
    /\ \E industry \in IndustryTokens, years \in YearArgs :
           probe' = [fn |-> "validated_filter", industry |-> industry, years |-> years,
                     accepted |-> validate_industry_parameter(
                                      industry, metadata_industries(ds)) = Passed,
                     selected |-> apply_filters(Datasets[ds].genai, years,
                                                Some(<<industry>>))]
    /\ UNCHANGED <<now, cache, ds, pipeline, last, watch, hist, calls>>

NextRoutes ==
    \/ CallValidatedFilter
    \/ CallGetInsights
    \/ CallGetAllKpis
    \/ Return

SpecRoutes == InitPure /\ [][NextRoutes]_vars

\* a token that is no integer, or an integer outside 2020..2033
BadYear(token) ==
    token \notin {"2023", " 2022", "1999", "2040"} \/ token \in {"1999", "2040"}

\* a name that is not an industry of the dataset
BadIndustry(name) == name = "InvalidIndustry"

\* C20, as stated: a request to the insights or the KPI endpoint with a year
\* that is no integer or out of range, or with an industry that the dataset
\* does not have, is answered with status 400.
C20_InvalidParameterIs400 ==
    (/\ probe.fn \in {"get_insights", "get_all_kpis"}
     /\ \/ \E i \in 1..Len(probe.years.list) : BadYear(probe.years.list[i])
        \/ \E i \in 1..Len(probe.industries.list) : BadIndustry(probe.industries.list[i]))
        => probe.status = 400

\* C21, as stated: on validated adoption records, degenerate ones included
\* (a rate of 0.0, one record per industry, equal values), none of the three
\* growth computations raises an arithmetic error: the fastest-growing
\* industry of KPIService and the growth trends of DataProcessor come out
\* without a division by a zero base-year mean.
C21_DegenerateDataNeverAborts ==
    probe.fn = "growth_computations" => ~probe.kpi.raised /\ ~probe.processor.raised

\* C22: the cache evicts on staleness only.  A step of get or
\* generate_insights on filters with key k leaves the entry of every other
\* key as it was; it removes k's entry only if that entry was stale (its age
\* at least the TTL); get never changes an entry it keeps; a call that
\* computed leaves under k the list it returns with the current timestamp;
\* the clock alone changes nothing and clear empties the dict.
C22_OnlyStalenessEvicts ==
    [][LET k == generate_key(last'.filters)
       IN  /\ last'.op \in {"get", "generate"} =>
                /\ \A k2 \in (DOMAIN cache \cup DOMAIN cache') \ {k} :
                       k2 \in DOMAIN cache /\ k2 \in DOMAIN cache' /\ cache'[k2] = cache[k2]
                /\ (k \in DOMAIN cache /\ k \notin DOMAIN cache')
                       => now - cache[k].timestamp >= TTL_MINUTES
                /\ (last'.op = "get" /\ k \in DOMAIN cache')
                       => k \in DOMAIN cache /\ cache'[k] = cache[k]
                /\ (last'.op = "generate" /\ last'.generated)
                       => /\ k \in DOMAIN cache'
                          /\ cache'[k] = [insights |-> last'.result, timestamp |-> now]
           /\ last'.op = "tick" => cache' = cache
           /\ last'.op = "clear" => cache' = EmptyCache]_vars

\* a get has just evicted the stale entry of its key and the entries of two
\* other keys are still there
C22_Witness ==
    /\ last.op = "get" /\ last.found /\ ~last.hit
    /\ generate_key(last.filters) \notin DOMAIN cache
    /\ Cardinality(DOMAIN cache) >= 2
    /\ DOMAIN cache \subseteq DOMAIN last.cache_before

\* what a list of insights says: its categories, industries and confidences
Content(insights) ==
    [i \in 1..Len(insights) |->
        <<insights[i].category, insights[i].subject, insights[i].confidence>>]

\* two calls for the same filters that both missed before either stored
Duplicates(t, u) ==
    /\ t # u /\ calls[t].duplicate /\ calls[u].duplicate
    /\ calls[t].filters = calls[u].filters

\* C23: when two generate_insights calls for the same filters both miss
\* before either stores, the lists they compute have the same categories,
\* industries and confidences; once both have returned, the cache holds
\* under their key one of the two lists; and every set leaves under its key
\* the list of the call that ran it with the current timestamp, all other
\* entries untouched, so the entry is that of the set that ran last and each
\* call returns the list it computed itself.
C23_DuplicateComputationHarmless ==
    /\ [](\A t \in Threads, u \in Threads :
              Duplicates(t, u) /\ calls[t].pc \in {"set", "returned"}
                               /\ calls[u].pc \in {"set", "returned"}
                  => /\ Content(calls[t].insights) = Content(calls[u].insights)
                     /\ (At(t, "returned") /\ At(u, "returned"))
                            => LET key == generate_key(calls[t].filters)
                               IN  /\ key \in DOMAIN cache
                                   /\ cache[key].insights
                                          \in {calls[t].insights, calls[u].insights})
    /\ [][\A t \in Threads :
              (At(t, "set") /\ calls'[t].pc = "returned")
                  => LET key == generate_key(calls[t].filters)
                     IN  /\ calls'[t].insights = calls[t].insights
                         /\ DOMAIN cache' = DOMAIN cache \cup {key}
                         /\ cache'[key] = [insights |-> calls[t].insights, timestamp |-> now]
                         /\ \A k \in DOMAIN cache \ {key} : cache'[k] = cache[k]]_vars

\* both calls computed in a race and returned, at different instants, and
\* the entry is that of the later one
C23_Witness ==
    /\ Duplicates(1, 2) /\ At(1, "returned") /\ At(2, "returned")
    /\ calls[1].insights # calls[2].insights
    /\ calls[1].insights # <<>>
    /\ cache[generate_key(calls[1].filters)].insights = calls[2].insights

\* a row that meets every constraint of GrowthPredictionRecord
MeetsConstraints(row) ==
    /\ row.industry \in IndustryEnum
    /\ row.year \in 2024..2035
    /\ \A v \in {row.predicted_adoption, row.confidence_interval_low,
                 row.confidence_interval_high} : v \in 0..RateScale
    /\ row.confidence_interval_low <= row.predicted_adoption
    /\ row.predicted_adoption <= row.confidence_interval_high

\* a row that breaks a constraint on its industry, year, a rate, or the
\* order of its interval
BreaksConstraint(row) ==
    \/ row.industry \notin IndustryEnum
    \/ row.year \notin 2024..2035
    \/ \E v \in {row.predicted_adoption, row.confidence_interval_low,
                 row.confidence_interval_high} : v \notin 0..RateScale
    \/ row.confidence_interval_high < row.confidence_interval_low

LastOfKey(records, key) ==
    CHOOSE i \in 1..Len(records) :
        /\ <<records[i].industry, records[i].year>> = key
        /\ \A j \in (i + 1)..Len(records) : <<records[j].industry, records[j].year>> # key

\* the (industry, year) keys that both lists hold after the year filter
CommonKeys(genai, aws, year_filter) ==
    {key \in {<<genai[i].industry, genai[i].year>> : i \in 1..Len(genai)} :
        /\ year_filter.none \/ key[2] = year_filter.value
        /\ \E j \in 1..Len(aws) : <<aws[j].industry, aws[j].year>> = key}

\* C25: calculate_correlation_analysis returns one data point per distinct
\* (industry, year) key that both lists hold after the year filter, and
\* sample_size is their number; the data point of a key carries the adoption
\* rate of the last adoption record of that key and the composite usage
\* score of its last usage record.
C25_SampleSizeCountsCommonKeys ==
    probe.fn = "correlation_analysis" =>
        LET genai == probe.genai_records
            aws == probe.aws_records
            points == probe.result.data_points
            common == CommonKeys(genai, aws, probe.year_filter)
        IN  /\ probe.result.sample_size = Len(points)
            /\ Len(points) = Cardinality(common)
            /\ {<<points[i].industry, points[i].year>> : i \in 1..Len(points)} = common
            /\ \A i \in 1..Len(points) :
                   LET key == <<points[i].industry, points[i].year>>
                   IN  /\ points[i].genai_adoption
                              = genai[LastOfKey(genai, key)].adoption_rate
                       /\ points[i].aws_usage_score
                              = 10 * WeightedUsage(aws[LastOfKey(aws, key)])

\* both lists hold two records of one key, other keys match too, and the
\* year filter drops some records
C25_Witness ==
    /\ probe.fn = "correlation_analysis"
    /\ ~probe.year_filter.none
    /\ Len(probe.genai_records) = 5 /\ Len(probe.aws_records) = 5
    /\ probe.result.sample_size = 2
    /\ probe.result.data_points[1].genai_adoption = 5
    /\ probe.result.data_points[1].aws_usage_score = 200

\* C26, as stated: an industry string that validate_industry_parameter
\* accepts selects, in _apply_filters, exactly the records (of the years
\* asked for) of the dataset industry it was matched against, whatever its
\* letter case.
C26_ValidationAndFilterAgree ==
    (probe.fn = "validated_filter" /\ probe.accepted) =>
        LET records == Datasets[ds].genai
        IN  IsSelection(probe.selected, records,
                {i \in 1..Len(records) :
                    /\ lower(records[i].industry) = lower(probe.industry)
                    /\ ~Truthy(probe.years) \/ InList(records[i].year, probe.years.list)})

\* generate_insights(years=[], industries=None)
EmptyYears == [years |-> Some(<<>>), industries |-> None]

\* the other filter of the pair {no filter, empty years list}
Twin(f) == IF f = NoFilters THEN EmptyYears ELSE NoFilters

\* C27: an empty years list selects like no filter but is cached apart.
\* The two filters select every record; a call with one of them that
\* computes returns a list with the categories, industries and confidences
\* the pipeline yields for the other; their cache keys differ, and a call
\* with one of them is never served from the cache unless an entry of its
\* own key was there, whatever the other key holds.
C27_EmptyListSelectsAlikeCachesApart ==
    /\ generate_key(NoFilters) # generate_key(EmptyYears)
    /\ \A f \in {NoFilters, EmptyYears} :
           apply_filters(Datasets[ds].genai, f.years, f.industries) = Datasets[ds].genai
    /\ (last.op = "generate" /\ last.filters \in {NoFilters, EmptyYears}) =>
           /\ last.generated
                  => Content(last.result) = Content(pipeline[Twin(last.filters)][last.at])
           /\ generate_key(last.filters) \notin DOMAIN last.cache_before
                  => last.outcome # "cached"

\* a call with the empty list computes a non-empty list while a fresh entry
\* stored by a call without filters is in the cache
C27_Witness ==
    /\ last.op = "generate" /\ last.filters = EmptyYears
    /\ last.generated /\ last.result # <<>>
    /\ generate_key(EmptyYears) \notin DOMAIN last.cache_before
    /\ generate_key(NoFilters) \in DOMAIN last.cache_before
    /\ last.at - last.cache_before[generate_key(NoFilters)].timestamp < TTL_MINUTES

\* C28: the cache keeps the filters apart.  Every entry under the key of a
\* filter f holds the list the pipeline produced for f at the entry's
\* timestamp, and every generate_insights(f) call that returns, returns a
\* list the pipeline produced for f: the one of this instant if it
\* computed, the one of the entry it found if it was served from the cache.
C28_CacheIsolation ==
    /\ \A f \in Filters :
           generate_key(f) \in DOMAIN cache
               => cache[generate_key(f)].insights
                      = pipeline[f][cache[generate_key(f)].timestamp]
    /\ Returned =>
           IF last.outcome = "cached"
           THEN last.result = pipeline[last.filters][last.stored]
           ELSE last.result = pipeline[last.filters][last.at]

\* a call is served from the cache while the cache also holds, under
\* another key, a different list, and the clock has moved since the entry
\* was stored
C28_Witness ==
    /\ Returned /\ last.outcome = "cached" /\ last.at > last.stored
    /\ \E k \in DOMAIN cache :
           /\ k # generate_key(last.filters)
           /\ Content(cache[k].insights) # Content(last.result)
           /\ cache[k].insights # <<>>

\* the years of a years argument for which some record exists
YearsWithData(records, years) ==
    {records[i].year : i \in 1..Len(records)} \cap {years.list[j] : j \in 1..Len(years.list)}

\* mean adoption rate of an industry in a year
MeanOf(records, industry, year) ==
    LET rows == {i \in 1..Len(records) :
                    records[i].industry = industry /\ records[i].year = year}
    IN  Rat(SumSeq([i \in 1..Len(records) |->
                       IF i \in rows THEN records[i].adoption_rate ELSE 0]),
            Cardinality(rows))

\* what C29 says of a call of the growth generator whose years argument
\* counts as a filter when given(years) holds
GrowthWithinFilter(given) ==
    probe.fn = "growth_insights" =>
        LET records == probe.records
            named == {probe.years.list[j] : j \in 1..Len(probe.years.list)}
            with_data == YearsWithData(records, probe.years)
        IN  /\ (given /\ Cardinality(with_data) < 2) => probe.result = <<>>
            /\ (given /\ Cardinality(named) = 2 /\ probe.result # <<>>) =>
                   LET a == CHOOSE y \in named : \A z \in named : y <= z
                       b == CHOOSE y \in named : \A z \in named : z <= y
                       subject == probe.result[1].subject
                       mean_a == MeanOf(records, subject, a)
                       mean_b == MeanOf(records, subject, b)
                   IN  /\ probe.result[1].category = "growth_trends"
                       /\ probe.result[1].statistical_data.sample_size = 2
                       /\ probe.result[1].statistical_data.growth_rate
                              = Rat(mean_b.num * mean_a.den - mean_a.num * mean_b.den,
                                    mean_b.den * mean_a.num)

\* C29, as stated: every call whose years filter names fewer than two
\* distinct years with data yields no growth_trends insight, and with a
\* filter of two years the growth between them is one step, whatever lies
\* between them.
C29_GrowthWithinGivenYears == GrowthWithinFilter(~probe.years.none)

\* C29, for a years filter that is not empty: an empty list is no filter.
C29_GrowthWithinNonEmptyYears ==
    GrowthWithinFilter(~probe.years.none /\ probe.years.list # <<>>)

\* the filter names 2020 and 2022, the data holds 2021 as well, and the
\* growth from 0.5 to 0.8 is reported as one step of 60%
C29_Witness ==
    /\ probe.fn = "growth_insights"
    /\ probe.years = Some(<<2020, 2022>>)
    /\ \E i \in 1..Len(probe.records) : probe.records[i].year = 2021
    /\ probe.result # <<>>
    /\ probe.result[1].statistical_data.growth_rate = Rat(3, 5)

\* C30: the correlation generator pairs one adoption record with one usage
\* record per (industry, year) key that both lists hold, the last record of
\* the key in each list; the number n of pairs, which must be at least 3 and
\* which the confidence scorer is given, is the number of such keys and not
\* the number of records.
C30_OnePairPerKey ==
    probe.fn = "repeated_correlation_insights" =>
        LET genai == probe.genai_records
            aws == probe.aws_records
            result == probe.result
            matched == {k \in 1..Len(CorrelationKeys) :
                           HasKey(genai, CorrelationKeys[k]) /\ HasKey(aws, CorrelationKeys[k])}
            n == Cardinality(matched)
            key(j) == CorrelationKeys[NthOf(matched, j)]
            xs == [j \in 1..n |-> genai[LastOfKey(genai, key(j))].adoption_rate]
            ys == [j \in 1..n |-> WeightedUsage(aws[LastOfKey(aws, key(j))])]
            corr == calculate_pearson_correlation(xs, ys)
            r == corr[1]
        IN  /\ n < 3 => result = <<>>
            /\ Len(result) = (IF n >= 3 /\ Abs(r) > 300 THEN 1 ELSE 0)
            /\ result # <<>> =>
                  /\ result[1].statistical_data.correlation_coefficient = r
                  /\ result[1].statistical_data.p_value = corr[2]
                  /\ result[1].statistical_data.sample_size = n
                  /\ result[1].confidence = calculate_confidence(corr[2], n, Abs(r))

\* four adoption records over three keys, the first key twice with two
\* different rates, give an insight over three pairs
C30_Witness ==
    /\ probe.fn = "repeated_correlation_insights"
    /\ Len(probe.genai_records) = 4
    /\ KeyOf(probe.genai_records[4]) = KeyOf(probe.genai_records[1])
    /\ probe.genai_records[4].adoption_rate # probe.genai_records[1].adoption_rate
    /\ Len(probe.result) = 1
    /\ probe.result[1].statistical_data.sample_size = 3

\* three adoption records over two keys give no insight
C30_FewKeysWitness ==
    /\ probe.fn = "repeated_correlation_insights"
    /\ Len(probe.genai_records) = 3
    /\ Len(probe.aws_records) >= 3
    /\ probe.result = <<>>

====
